---- MODULE Spec2Model ----
(***************************************************************************)
(* kaydet: plain-text day files as the source of truth, an SQLite index as *)
(* a derived cache, and the sync engine that reconciles the two.           *)
(*                                                                         *)
(* A day file is a sequence of entry blocks.  A header line is kept as its *)
(* lexical parts: the timestamp, the optional "[id]" stamp and the         *)
(* remainder as a sequence of whitespace-separated tokens, each token      *)
(* carrying the shape the parsers' regular expressions distinguish.        *)
(* Day files are named by their date: file d is the file whose name        *)
(* resolves to date d, and sorted(glob("*.txt")) visits them as 1, 2, ...  *)
(***************************************************************************)
EXTENDS Integers, Sequences, FiniteSets, TLC

\* Number of calendar days (and so of day-file names) in the model.
NumDays == 2

\* Greatest number of entry blocks a day file holds in the model.
MaxEntries == 2

\* Greatest number of hand edits of day files in one run.
MaxEdits == 2

\* Greatest entry id in the model: hand-written stamps are drawn from
\* 1..MaxId and the AUTOINCREMENT sequence is not driven past it.
MaxId == 3

Days == 1..NumDays

Ids == 1..MaxId

\* entry_id None (no "[...]" on the header line) is written 0.
NoId == 0

(***************************************************************************)
(* Tokens of a header remainder.                                           *)
(***************************************************************************)
Word(v) == [t |-> "word", k |-> "", v |-> v]

Hash(v) == [t |-> "hash", k |-> "", v |-> v]

Meta(k, v) == [t |-> "meta", k |-> k, v |-> v]

Pipe == [t |-> "pipe", k |-> "", v |-> ""]

LegacyTag(v) == [t |-> "legacy", k |-> "", v |-> v]

\* Sequence helpers.
RECURSIVE SeqToSet(_)
SeqToSet(s) == IF s = <<>> THEN {} ELSE {Head(s)} \cup SeqToSet(Tail(s))

InSeq(x, s) == \E i \in 1..Len(s) : s[i] = x

RECURSIVE FilterOut(_, _)
FilterOut(s, drop) ==
    IF s = <<>> THEN <<>>
    ELSE IF Head(s) \in drop THEN FilterOut(Tail(s), drop)
         ELSE <<Head(s)>> \o FilterOut(Tail(s), drop)

RECURSIVE Flatten(_)
Flatten(ss) == IF ss = <<>> THEN <<>> ELSE Head(ss) \o Flatten(Tail(ss))

(***************************************************************************)
(* parsers.py                                                              *)
(***************************************************************************)

\* metadata[key] = value on an insertion-ordered dict: a repeated key keeps
\* its first position and takes the last value.
RECURSIVE DictSet(_, _, _)
DictSet(d, k, v) ==
    IF d = <<>> THEN << <<k, v>> >>
    ELSE IF Head(d)[1] = k THEN << <<k, v>> >> \o Tail(d)
         ELSE <<Head(d)>> \o DictSet(Tail(d), k, v)

\* The tokens of parts[1:] in order; the pipes only separate segments.
TokensAfterFirstPipe(rem) ==
    LET first == CHOOSE i \in 1..Len(rem) :
                     /\ rem[i] = Pipe
                     /\ \A j \in 1..(i - 1) : rem[j] # Pipe
    IN  FilterOut(SubSeq(rem, first + 1, Len(rem)), {Pipe})

MessagePart(rem) ==
    LET first == CHOOSE i \in 1..Len(rem) :
                     /\ rem[i] = Pipe
                     /\ \A j \in 1..(i - 1) : rem[j] # Pipe
    IN  SubSeq(rem, 1, first - 1)

\* str.lower on the words of the model: "Work" is the one word written
\* with a capital letter.
str_lower(word) == IF word = "Work" THEN "work" ELSE word

\* normalize_tag: the marker is stripped and the name lowercased.
normalize_tag(tag) == str_lower(tag)

RECURSIVE ClassifyTokens(_, _)
ClassifyTokens(tokens, acc) ==
    IF tokens = <<>> THEN acc
    ELSE LET tok == Head(tokens)
         IN  ClassifyTokens(Tail(tokens),
                 IF tok.t = "hash"
                 THEN [acc EXCEPT !.explicit_tags =
                                      Append(@, normalize_tag(tok.v))]
                 ELSE IF tok.t = "meta"
                 THEN [acc EXCEPT !.metadata = DictSet(@, tok.k, tok.v)]
                 ELSE [acc EXCEPT !.message = Append(@, tok)])

parse_stored_entry_remainder(rem) ==
    IF ~InSeq(Pipe, rem)
    THEN [message |-> rem, metadata |-> <<>>, explicit_tags |-> <<>>]
    ELSE ClassifyTokens(TokensAfterFirstPipe(rem),
             [message |-> MessagePart(rem), metadata |-> <<>>,
              explicit_tags |-> <<>>])

\* HASHTAG_PATTERN.findall over the lines, in order: "#" followed by
\* lowercase letters, so "#Work" holds no hashtag.
RECURSIVE HashtagsOf(_)
HashtagsOf(tokens) ==
    IF tokens = <<>> THEN <<>>
    ELSE IF Head(tokens).t = "hash" /\ Head(tokens).v = str_lower(Head(tokens).v)
         THEN <<Head(tokens).v>> \o HashtagsOf(Tail(tokens))
         ELSE HashtagsOf(Tail(tokens))

RECURSIVE Register(_, _)
Register(seen, tags) ==
    IF tags = <<>> THEN seen
    ELSE Register(IF InSeq(Head(tags), seen) THEN seen
                  ELSE Append(seen, Head(tags)), Tail(tags))

\* register of deduplicate_tags: the lowercased tag is appended unless it
\* is empty or already seen.
RECURSIVE RegisterLower(_, _)
RegisterLower(seen, tags) ==
    IF tags = <<>> THEN seen
    ELSE RegisterLower(IF str_lower(Head(tags)) = ""
                          \/ InSeq(str_lower(Head(tags)), seen)
                       THEN seen
                       ELSE Append(seen, str_lower(Head(tags))), Tail(tags))

\* A deduplicate_tags that registers every tag as it is written.
deduplicate_tags_as_written(initial_tags, lines) ==
    initial_tags \o HashtagsOf(Flatten(lines))

deduplicate_tags(initial_tags, lines) ==
    RegisterLower(RegisterLower(<<>>, initial_tags),
                  HashtagsOf(Flatten(lines)))

\* extract_words_from_text: punctuation is stripped, so "#work", "[work]"
\* and "status:done" index as work, work and statusdone.
RECURSIVE WordsOf(_)
WordsOf(tokens) ==
    IF tokens = <<>> THEN {}
    ELSE LET tok == Head(tokens)
         IN  (IF tok.t = "pipe" THEN {}
              ELSE IF tok.t = "meta" THEN {<<tok.k, tok.v>>}
              ELSE {<<"", str_lower(tok.v)>>}) \cup WordsOf(Tail(tokens))

extract_words_from_text(lines) == WordsOf(Flatten(lines))

\* The key a parsed entry is looked up by: "<file>:<id>" for a numeric
\* stamp, otherwise the digest of "<file>:<time>:<first line>".
NumericUuid(d, id) == [kind |-> "numeric", file |-> d, id |-> id,
                       seed |-> <<>>]

HashUuid(d, ts, first_line) == [kind |-> "hash", file |-> d, id |-> NoId,
                                seed |-> <<ts, first_line>>]

\* One entry as finalize_entry builds it from a block of day file d.
ParseBlock(d, blk) ==
    LET legacy == blk.rem # <<>> /\ Head(blk.rem).t = "legacy"
        legacy_tags == IF legacy THEN <<Head(blk.rem).v>> ELSE <<>>
        remainder == IF legacy THEN Tail(blk.rem) ELSE blk.rem
        finalize_entry(parsed, lines) ==
            [entry_id |-> blk.id,
             uuid |-> IF blk.id # NoId THEN NumericUuid(d, blk.id)
                      ELSE HashUuid(d, blk.ts, parsed.message),
             timestamp |-> blk.ts,
             lines |-> lines,
             tags |-> deduplicate_tags(legacy_tags \o parsed.explicit_tags,
                                       lines),
             metadata |-> parsed.metadata]
        WithLines(parsed) ==
            finalize_entry(parsed, <<parsed.message>> \o blk.cont)
    IN  WithLines(parse_stored_entry_remainder(remainder))

parse_day_entries(d, blocks) ==
    [i \in 1..Len(blocks) |-> ParseBlock(d, blocks[i])]

RECURSIVE HashTokens(_)
HashTokens(tags) ==
    IF tags = <<>> THEN <<>>
    ELSE <<Hash(Head(tags))>> \o HashTokens(Tail(tags))

RECURSIVE MetaTokens(_)
MetaTokens(metadata) ==
    IF metadata = <<>> THEN <<>>
    ELSE <<Meta(Head(metadata)[1], Head(metadata)[2])>>
             \o MetaTokens(Tail(metadata))

\* The remainder format_entry_header writes after "HH:MM [id]:".
format_entry_header(message, metadata, extra_tag_markers) ==
    message
      \o (IF metadata # <<>> THEN <<Pipe>> \o MetaTokens(metadata) ELSE <<>>)
      \o (IF extra_tag_markers # <<>>
          THEN <<Pipe>> \o HashTokens(extra_tag_markers) ELSE <<>>)

\* format_entry_header(..., entry_id=...): the header line "HH:MM [id]: ..."
\* of the text format.
format_entry_header_with_id(timestamp, message, metadata, extra_tag_markers, entry_id) ==
    [ts |-> timestamp, id |-> entry_id,
     rem |-> format_entry_header(message, metadata, extra_tag_markers)]

\* A block of a day file: the parts of its header line and the lines that
\* follow it up to the next header line.
Block(header, cont) ==
    [ts |-> header.ts, id |-> header.id, rem |-> header.rem, cont |-> cont]

(***************************************************************************)
(* State.                                                                  *)
(***************************************************************************)
VARIABLES
    files,         \* day files on disk: [exists, blocks, mtime] per date
    entries,       \* index table entries: id -> [entry_uuid, source_file, timestamp]
    tags,          \* index table tags: <<entry_id, tag_name>>
    words,         \* index table words: <<entry_id, word>>
    metadata,      \* index table metadata: <<entry_id, meta_key, meta_value>>
    autoincrement, \* sqlite_sequence of entries (id INTEGER PRIMARY KEY AUTOINCREMENT)
    synced_files,  \* Sync State: file -> [mtime, needs_final_sync]
    now,           \* the date of "now"
    edits,         \* how many times the user has edited a day file by hand
    last           \* what the last operation reported to its caller

vars == <<files, entries, tags, words, metadata, autoincrement,
          synced_files, now, edits, last>>

NoFile == [exists |-> FALSE, blocks |-> <<>>, mtime |-> 0]

\* The index as one value, threaded through the statements of a handler.
Database == [entries |-> entries, tags |-> tags, words |-> words,
             metadata |-> metadata, autoincrement |-> autoincrement,
             synced_files |-> synced_files]

\* A write gives the file a modification time it never had: only equality
\* with the tracked and the previous time is ever tested, so the least
\* unused stamp stands for it.
NewMtime(file, db, d) ==
    CHOOSE m \in 1..3 :
        /\ m # file.mtime
        /\ d \in DOMAIN db.synced_files => m # db.synced_files[d].mtime

(***************************************************************************)
(* database.py                                                             *)
(***************************************************************************)
Max(a, b) == IF a >= b THEN a ELSE b

\* The greatest id the entries table holds, 0 for an empty table.
GreatestId(rows) ==
    IF DOMAIN rows = {} THEN 0
    ELSE CHOOSE i \in DOMAIN rows : \A j \in DOMAIN rows : j <= i

\* A rowid chosen without AUTOINCREMENT: one more than the largest id the
\* table holds now.
NextRowidOfPresentRows(db) == GreatestId(db.entries) + 1

\* INSERT INTO entries without an id: AUTOINCREMENT hands out one more than
\* the largest id the table ever held.
NextRowid(db) == db.autoincrement + 1

InsertEntry(db, id, uuid, source_file, timestamp) ==
    [db EXCEPT
        !.entries = [i \in DOMAIN db.entries \cup {id} |->
                        IF i = id
                        THEN [entry_uuid |-> uuid,
                              source_file |-> source_file,
                              timestamp |-> timestamp]
                        ELSE db.entries[i]],
        !.autoincrement = Max(@, id)]

DeleteEntryRows(db, ids) ==
    [db EXCEPT
        !.tags = {r \in @ : r[1] \notin ids},
        !.words = {r \in @ : r[1] \notin ids},
        !.metadata = {r \in @ : r[1] \notin ids},
        !.entries = [i \in DOMAIN @ \ ids |-> @[i]]]

\* _upsert_source_records: the tag, word and metadata rows of one entry.
InsertSourceRecords(db, id, tagseq, wordset, meta) ==
    [db EXCEPT
        !.tags = @ \cup {<<id, tg>> : tg \in SeqToSet(tagseq)},
        !.words = @ \cup {<<id, w>> : w \in wordset},
        !.metadata = @ \cup {<<id, kv[1], kv[2]>> : kv \in SeqToSet(meta)}]

(***************************************************************************)
(* sync.py                                                                 *)
(***************************************************************************)

\* A loop body that gives a stamped entry the id it is stamped with,
\* whichever file the index registers the id to.
NormalizeOneTakingOver(db, d, entry) ==
    IF entry.entry_id # NoId
    THEN [id |-> entry.entry_id,
          db |-> InsertEntry(db, entry.entry_id,
                             NumericUuid(d, entry.entry_id), d,
                             entry.timestamp)]
    ELSE [id |-> NextRowid(db),
          db |-> InsertEntry(db, NextRowid(db),
                             NumericUuid(d, NextRowid(db)), d,
                             entry.timestamp)]

\* The body of the loop of _normalize_entries for one parsed entry: the id
\* the entry ends up with, and the entries table afterwards.
NormalizeOne(db, d, entry) ==
    LET candidate == entry.entry_id
        has_row == candidate # NoId /\ candidate \in DOMAIN db.entries
        row_matches ==
            /\ has_row
            /\ db.entries[candidate].entry_uuid = entry.uuid
            /\ db.entries[candidate].source_file = d
        kept == IF candidate # NoId /\ (row_matches \/ ~has_row)
                THEN candidate ELSE NoId
        Update(db2, id) ==
            [id |-> id,
             db |-> InsertEntry(db2, id, NumericUuid(d, id), d,
                                entry.timestamp)]
        Lookup(db1, by_uuid) ==
            IF kept # NoId THEN Update(db1, kept)
            ELSE IF by_uuid # {}
            THEN Update(db1, CHOOSE i \in by_uuid : TRUE)
            ELSE Update(InsertEntry(db1, NextRowid(db1), entry.uuid, d,
                                    entry.timestamp),
                        NextRowid(db1))
        Claim(db1) ==
            Lookup(db1, {i \in DOMAIN db1.entries :
                            db1.entries[i].entry_uuid = entry.uuid})
    IN  Claim(IF candidate # NoId /\ ~has_row
              THEN InsertEntry(db, candidate, entry.uuid, d, entry.timestamp)
              ELSE db)

RECURSIVE NormalizeLoop(_, _, _, _)
NormalizeLoop(db, d, parsed, done) ==
    IF Len(done) = Len(parsed) THEN [db |-> db, normalized |-> done]
    ELSE LET entry == parsed[Len(done) + 1]
             Continue(one) ==
                 NormalizeLoop(one.db, d, parsed,
                     Append(done,
                            [entry EXCEPT !.entry_id = one.id,
                                          !.uuid = NumericUuid(d, one.id)]))
         IN  Continue(NormalizeOne(db, d, entry))

_normalize_entries(db, d, parsed) ==
    LET DeleteMissing(looped) ==
            LET assigned_ids == {looped.normalized[i].entry_id :
                                    i \in 1..Len(looped.normalized)}
                existing_ids == {i \in DOMAIN looped.db.entries :
                                    looped.db.entries[i].source_file = d}
                missing == existing_ids \ assigned_ids
            IN  [db |-> DeleteEntryRows(looped.db, missing),
                 normalized |-> looped.normalized]
    IN  DeleteMissing(NormalizeLoop(db, d, parsed, <<>>))

RECURSIVE _reindex_entries(_, _)
_reindex_entries(db, normalized) ==
    IF normalized = <<>> THEN db
    ELSE LET entry == Head(normalized)
             id == entry.entry_id
             cleared == [db EXCEPT
                            !.tags = {r \in @ : r[1] # id},
                            !.words = {r \in @ : r[1] # id},
                            !.metadata = {r \in @ : r[1] # id}]
         IN  _reindex_entries(
                 InsertSourceRecords(cleared, id, entry.tags,
                     extract_words_from_text(entry.lines), entry.metadata),
                 Tail(normalized))

_render_entry(entry) ==
    LET message == entry.lines[1]
        inline_tags == SeqToSet(deduplicate_tags(<<>>, entry.lines))
        explicit_markers == FilterOut(entry.tags, inline_tags)
    IN  Block(format_entry_header_with_id(entry.timestamp, message,
                  entry.metadata, explicit_markers, entry.entry_id),
              Tail(entry.lines))

\* A pass that never reads a file again for its pending mark alone.
NeedsSyncByMtimeOnly(file, d, tracked, today, force) ==
    \/ force
    \/ d \notin DOMAIN tracked
    \/ tracked[d].mtime # file.mtime

\* needs_sync: the file is read when the pass is forced, the file is not
\* tracked, its modification time differs from the tracked one, or it is
\* marked pending and its date is before today's.
NeedsSync(file, d, tracked, today, force) ==
    \/ force
    \/ d \notin DOMAIN tracked
    \/ tracked[d].mtime # file.mtime
    \/ tracked[d].needs_final_sync /\ d < today

\* A pass that never defers.
SkipTodayNever(d, today, process_today, had_missing_ids) == FALSE

\* A pass that defers today's file whatever process_today says.
SkipTodayAlways(d, today, process_today, had_missing_ids) ==
    d = today /\ had_missing_ids

\* skip_today: the rewrite of today's file is deferred when it holds an
\* entry without an id, unless the caller asked to process today.
SkipToday(d, today, process_today, had_missing_ids) ==
    d = today /\ ~process_today /\ had_missing_ids

\* A pass that tracks the modification time it saw before writing.
TrackedRecordBeforeWrite(read, written, skip_today) ==
    [mtime |-> read.mtime, needs_final_sync |-> skip_today]

\* The synced_files row of a file: its modification time after the write,
\* and the pending mark.
TrackedRecord(read, written, skip_today) ==
    [mtime |-> written.mtime, needs_final_sync |-> skip_today]

\* One iteration of the loop of synchronize_diary over sorted(glob("*.txt")).
\* st carries the disk, the index and the list normalized_files; tracked is
\* the snapshot of synced_files read before the loop.
SyncFile(st, d, tracked, today, force, process_today) ==
    LET file == st.fs[d]
        Track(db1, skip_today, changed, written) ==
            [fs |-> [st.fs EXCEPT ![d] = written],
             db |-> [db1 EXCEPT !.synced_files =
                        [f \in DOMAIN @ \cup {d} |->
                            IF f = d
                            THEN TrackedRecord(file, written, skip_today)
                            ELSE @[f]]],
             normalized_files |->
                 IF changed THEN Append(st.normalized_files, d)
                 ELSE st.normalized_files]
        Write(db1, skip_today, changed, rendered) ==
            Track(db1, skip_today, changed,
                  IF changed
                  THEN [file EXCEPT !.blocks = rendered,
                                    !.mtime = NewMtime(file, st.db, d)]
                  ELSE file)
        Render(db1, skip_today, rendered) ==
            Write(db1, skip_today, ~skip_today /\ rendered # file.blocks,
                  rendered)
        Reindex(norm, skip_today) ==
            Render(_reindex_entries(norm.db, norm.normalized), skip_today,
                   [i \in 1..Len(norm.normalized) |->
                       _render_entry(norm.normalized[i])])
        Normalize(parsed) ==
            Reindex(_normalize_entries(st.db, d, parsed),
                    SkipToday(d, today, process_today,
                        \E i \in 1..Len(parsed) : parsed[i].entry_id = NoId))
    IN  IF ~file.exists \/ ~NeedsSync(file, d, tracked, today, force) THEN st
        ELSE Normalize(parse_day_entries(d, file.blocks))

RECURSIVE SyncLoop(_, _, _, _, _, _)
SyncLoop(st, d, tracked, today, force, process_today) ==
    IF d > NumDays THEN st
    ELSE SyncLoop(SyncFile(st, d, tracked, today, force, process_today),
                  d + 1, tracked, today, force, process_today)

synchronize_diary(fs, db, today, force, process_today) ==
    SyncLoop([fs |-> fs, db |-> db, normalized_files |-> <<>>],
             1, db.synced_files, today, force, process_today)

\* sync(now, force): the pass as the commands call it.  A forced pass is the
\* rebuild's, which runs with deferral disabled.
sync_modified_diary_files(fs, db, today, force) ==
    synchronize_diary(fs, db, today, force, force)

(***************************************************************************)
(* Inputs.                                                                 *)
(***************************************************************************)

\* "HH:MM" of every header line in the model.
Timestamp == "09:00"

\* Header remainders a hand edit may type:
\*   note #work                     (the form the sync pass writes)
\*   | [home] old status:done       (a bracketed word behind a pipe)
\* The second is rewritten by a sync pass to "[home] old | status:done", a
\* line with a legacy tag prefix.
Remainders ==
    { <<Word("note"), Hash("work")>>,
      <<Pipe, LegacyTag("home"), Word("old"), Meta("status", "done")>> }

\* What a hand edit puts between timestamp and colon: nothing, or "[1]".
HandStamps == {NoId, 1}

\* What add is called with: the text, the metadata and the explicit tags.
AddInputs ==
    { [message_lines |-> << <<Word("old")>> >>,
       metadata |-> << <<"status", "done">> >>,
       explicit_tags |-> <<"home">>] }

\* What an operation reports: whether it succeeded, the list of files a
\* sync pass returns as rewritten, the id it is about, the query and the
\* matches of a search.  again says that the operation before it was of the
\* same kind; due is the set of files a pass picked up only because they
\* were pending their final sync.
Report(op, ok, normalized, id, due, query, matches) ==
    [op |-> op, ok |-> ok, normalized_files |-> normalized, entry_id |-> id,
     again |-> (last.op = op), due |-> due, query |-> query,
     matches |-> matches]

Outcome(op, ok, normalized, id) ==
    Report(op, ok, normalized, id, {}, "", <<>>)

SetDatabase(db) ==
    /\ entries' = db.entries
    /\ tags' = db.tags
    /\ words' = db.words
    /\ metadata' = db.metadata
    /\ autoincrement' = db.autoincrement
    /\ synced_files' = db.synced_files

(***************************************************************************)
(* Initial state: an empty storage root and a freshly created index.       *)
(***************************************************************************)
Init ==
    /\ files = [d \in Days |-> NoFile]
    /\ entries = << >>
    /\ tags = {}
    /\ words = {}
    /\ metadata = {}
    /\ autoincrement = 0
    /\ synced_files = << >>
    /\ now = 1
    /\ edits = 0
    /\ last = [op |-> "init", ok |-> TRUE, normalized_files |-> <<>>,
               entry_id |-> NoId, again |-> FALSE, due |-> {},
               query |-> "", matches |-> <<>>]

(***************************************************************************)
(* The user edits a day file by hand.                                      *)
(***************************************************************************)
WriteBlocks(d, blocks) ==
    files' = [files EXCEPT ![d] = [exists |-> TRUE, blocks |-> blocks,
                                   mtime |-> NewMtime(files[d], Database, d)]]

\* A line is typed at the end of day file d, with or without an "[id]".
ManualAppend(d, id, rem) ==
    /\ edits < MaxEdits
    /\ edits' = edits + 1
    /\ Len(files[d].blocks) < MaxEntries
    /\ WriteBlocks(d, Append(files[d].blocks,
           [ts |-> Timestamp, id |-> id, rem |-> rem, cont |-> <<>>]))
    /\ last' = Outcome("manual", TRUE, <<>>, NoId)
    /\ UNCHANGED <<entries, tags, words, metadata, autoincrement,
                   synced_files, now>>

\* The i-th block of day file d is removed in an editor.
ManualDelete(d, i) ==
    /\ edits < MaxEdits
    /\ edits' = edits + 1
    /\ i \in 1..Len(files[d].blocks)
    /\ WriteBlocks(d, SubSeq(files[d].blocks, 1, i - 1)
                        \o SubSeq(files[d].blocks, i + 1,
                                  Len(files[d].blocks)))
    /\ last' = Outcome("manual", TRUE, <<>>, NoId)
    /\ UNCHANGED <<entries, tags, words, metadata, autoincrement,
                   synced_files, now>>

\* The text after the colon of the i-th header of day file d is retyped.
ManualRewrite(d, i, rem) ==
    /\ edits < MaxEdits
    /\ edits' = edits + 1
    /\ i \in 1..Len(files[d].blocks)
    /\ files[d].blocks[i].rem # rem
    /\ WriteBlocks(d, [files[d].blocks EXCEPT ![i].rem = rem])
    /\ last' = Outcome("manual", TRUE, <<>>, NoId)
    /\ UNCHANGED <<entries, tags, words, metadata, autoincrement,
                   synced_files, now>>

\* Midnight passes.
NextDay ==
    /\ now < NumDays
    /\ now' = now + 1
    /\ last' = Outcome("midnight", TRUE, <<>>, NoId)
    /\ UNCHANGED <<files, entries, tags, words, metadata, autoincrement,
                   synced_files, edits>>

(***************************************************************************)
(* commands/add.py                                                         *)
(***************************************************************************)

\* The tag names in sorted order.
TagOrder == <<"home", "new", "todo", "work">>

\* sorted({tag.strip().lower() for tag in explicit_tags if tag}).
SortedTags(explicit_tags) ==
    FilterOut(TagOrder,
        SeqToSet(TagOrder) \ {str_lower(explicit_tags[i]) :
                                  i \in 1..Len(explicit_tags)})

\* database.add_entry without an id: the entries row and its tag, word and
\* metadata rows.  The row carries the key "<file>:<id>" every numeric id
\* has in the index (sync.py gives it to each row it writes).
add_entry(db, source_file, timestamp, tagseq, wordset, meta) ==
    LET id == NextRowid(db)
    IN  InsertSourceRecords(
            InsertEntry(db, id, NumericUuid(source_file, id), source_file,
                        timestamp),
            id, tagseq, wordset, meta)

\* append_entry: the header line with its id, then the other lines.
append_entry(blocks, entry_id, timestamp, message_lines, meta, extra_tag_markers) ==
    Append(blocks,
        Block(format_entry_header_with_id(timestamp, message_lines[1], meta,
                  extra_tag_markers, entry_id),
              Tail(message_lines)))

\* create_entry at "now".
Add(input) ==
    LET day_file == now
        embedded_tags == deduplicate_tags(<<>>, input.message_lines)
        unique_explicit == SortedTags(input.explicit_tags)
        extra_tag_markers == FilterOut(unique_explicit,
                                       SeqToSet(embedded_tags))
        all_tags == deduplicate_tags(unique_explicit, input.message_lines)
        entry_id == NextRowid(Database)
    IN  /\ autoincrement < MaxId
        /\ Len(files[day_file].blocks) < MaxEntries
        /\ SetDatabase(add_entry(Database, day_file, Timestamp, all_tags,
               extract_words_from_text(input.message_lines),
               input.metadata))
        /\ WriteBlocks(day_file,
               append_entry(files[day_file].blocks, entry_id, Timestamp,
                            input.message_lines, input.metadata,
                            extra_tag_markers))
        /\ last' = Outcome("add", TRUE, <<>>, entry_id)
        /\ UNCHANGED <<now, edits>>

(***************************************************************************)
(* The sync pass and commands/doctor.py                                    *)
(***************************************************************************)

\* The files a pass visits although their modification time is the tracked
\* one: those marked needs_final_sync whose date has passed.
DueFiles(fs, tracked, today) ==
    {d \in DOMAIN tracked :
        /\ fs[d].exists
        /\ tracked[d].mtime = fs[d].mtime
        /\ tracked[d].needs_final_sync
        /\ d < today}

\* A non-forced sync pass, as a command runs it before its own work.
Sync ==
    LET st == sync_modified_diary_files(files, Database, now, FALSE)
    IN  /\ st.db.autoincrement <= MaxId
        /\ files' = st.fs
        /\ SetDatabase(st.db)
        /\ last' = Report("sync", TRUE, st.normalized_files, NoId,
                          DueFiles(files, synced_files, now), "", <<>>)
        /\ UNCHANGED <<now, edits>>

\* The DELETE statements of doctor_command; sqlite_sequence is not a table
\* they touch.
ClearIndexKeepsRows(db) == [db EXCEPT !.synced_files = << >>]

\* The index rebuilt by dropping its tables (DROP_TABLE_STATEMENTS), which
\* forgets the AUTOINCREMENT sequence too.
ClearIndexDroppingTables(db) ==
    [db EXCEPT !.tags = {}, !.words = {}, !.metadata = {},
               !.entries = << >>, !.synced_files = << >>,
               !.autoincrement = 0]

ClearIndex(db) ==
    [db EXCEPT !.tags = {}, !.words = {}, !.metadata = {},
               !.entries = << >>, !.synced_files = << >>]

doctor_command(fs, db, today) ==
    sync_modified_diary_files(fs, ClearIndex(db), today, TRUE)

Doctor ==
    LET st == doctor_command(files, Database, now)
    IN  /\ st.db.autoincrement <= MaxId
        /\ files' = st.fs
        /\ SetDatabase(st.db)
        /\ last' = Outcome("doctor", TRUE, st.normalized_files, NoId)
        /\ UNCHANGED <<now, edits>>

Next ==
    \/ \E d \in Days, id \in HandStamps, rem \in Remainders :
           ManualAppend(d, id, rem)
    \/ \E d \in Days, i \in 1..MaxEntries : ManualDelete(d, i)
    \/ \E d \in Days, i \in 1..MaxEntries, rem \in Remainders :
           ManualRewrite(d, i, rem)
    \/ NextDay
    \/ \E input \in AddInputs : Add(input)
    \/ Sync
    \/ Doctor

Spec == Init /\ [][Next]_vars

TypeOK ==
    /\ now \in Days
    /\ autoincrement \in 0..MaxId
    /\ DOMAIN entries \subseteq Ids
    /\ DOMAIN synced_files \subseteq Days

(***************************************************************************)
(* commands/entry_ops.py and commands/delete.py                            *)
(***************************************************************************)

\* str(entry_id).
Str(n) == <<"1", "2", "3", "4", "5", "6", "7", "8", "9">>[n]

\* match.group(n) of ENTRY_LINE_PATTERN on a header line: group 2 is the
\* "HH:MM" timestamp, group 3 the text between the brackets.
MatchGroup(blk, n) ==
    CASE n = 2 -> blk.ts
      [] n = 3 -> IF blk.id = NoId THEN "None" ELSE Str(blk.id)

\* find_entry_block: the first header whose group 2 equals str(entry_id);
\* 0 stands for EntryNotFoundError.
find_entry_block(blocks, entry_id) ==
    LET hits == {i \in 1..Len(blocks) :
                    MatchGroup(blocks[i], 2) = Str(entry_id)}
    IN  IF hits = {} THEN 0
        ELSE CHOOSE i \in hits : \A j \in hits : i <= j

RemoveAt(blocks, i) ==
    SubSeq(blocks, 1, i - 1) \o SubSeq(blocks, i + 1, Len(blocks))

\* delete_entry_command with assume_yes.
Delete(entry_id) ==
    LET found == entry_id \in DOMAIN entries
        source_file == entries[entry_id].source_file
        start == find_entry_block(files[source_file].blocks, entry_id)
        written == [files EXCEPT ![source_file] =
                       [exists |-> TRUE,
                        blocks |-> RemoveAt(@.blocks, start),
                        mtime |-> NewMtime(@, Database, source_file)]]
        st == sync_modified_diary_files(written, Database, now, FALSE)
    IN  IF found /\ files[source_file].exists /\ start # 0
        THEN /\ st.db.autoincrement <= MaxId
             /\ files' = st.fs
             /\ SetDatabase(st.db)
             /\ last' = Outcome("delete", TRUE, st.normalized_files,
                                entry_id)
             /\ UNCHANGED <<now, edits>>
        ELSE /\ last' = Outcome("delete", FALSE, <<>>, entry_id)
             /\ UNCHANGED <<files, entries, tags, words, metadata,
                            autoincrement, synced_files, now, edits>>

\* The runs of a user who never edits a day file by hand.
NextDelete ==
    \/ NextDay
    \/ \E input \in AddInputs : Add(input)
    \/ Sync
    \/ Doctor
    \/ \E entry_id \in Ids : Delete(entry_id)

SpecDelete == Init /\ [][NextDelete]_vars

(***************************************************************************)
(* indexing.py, commands/search.py and KaydetService.search_entries        *)
(***************************************************************************)

\* Tags a search may ask for ("#work", "#home").
Queries == {"work", "home"}

\* rebuild_index_if_empty: a rebuild when the entries table is empty and the
\* storage root holds a day file.
rebuild_index_if_empty(st, today) ==
    IF DOMAIN st.db.entries # {} \/ ~(\E d \in Days : st.fs[d].exists)
    THEN st
    ELSE LET Rebuilt(again) ==
                 [again EXCEPT !.normalized_files =
                                   st.normalized_files \o @]
         IN  Rebuilt(doctor_command(st.fs, st.db, today))

\* _ensure_index.
EnsureIndex(fs, db, today) ==
    rebuild_index_if_empty(sync_modified_diary_files(fs, db, today, FALSE),
                           today)

\* build_search_query for one included tag: the ids of the rows that carry
\* the tag.
build_search_query(db, tag) ==
    {id \in DOMAIN db.entries : <<id, tag>> \in db.tags}

\* load_matches: a located id is resolved through the ids written in its
\* day file; of two entries of a file with one id the later one is kept.
load_matches(locations, fs, db) ==
    LET Index(parsed) ==
            [id \in {parsed[i].entry_id : i \in 1..Len(parsed)} \ {NoId} |->
                CHOOSE i \in 1..Len(parsed) :
                    /\ parsed[i].entry_id = id
                    /\ \A j \in 1..Len(parsed) :
                           parsed[j].entry_id = id => j <= i]
        entry_map(d) == Index(parse_day_entries(d, fs[d].blocks))
    IN  {[day |-> db.entries[id].source_file, entry_id |-> id,
          pos |-> entry_map(db.entries[id].source_file)[id]] :
            id \in {n \in locations :
                       /\ fs[db.entries[n].source_file].exists
                       /\ n \in DOMAIN entry_map(db.entries[n].source_file)}}

\* matches.sort(key=int(entry_id), reverse=True)
RECURSIVE SortByIdDescending(_)
SortByIdDescending(matches) ==
    IF matches = {} THEN <<>>
    ELSE LET top == CHOOSE m \in matches :
                        \A o \in matches : o.entry_id <= m.entry_id
         IN  <<top>> \o SortByIdDescending(matches \ {top})

search_entries(fs, db, tag) ==
    SortByIdDescending(load_matches(build_search_query(db, tag), fs, db))

Search(query) ==
    LET st == EnsureIndex(files, Database, now)
    IN  /\ st.db.autoincrement <= MaxId
        /\ files' = st.fs
        /\ SetDatabase(st.db)
        /\ last' = Report("search", TRUE, st.normalized_files, NoId, {},
                          query, search_entries(st.fs, st.db, query))
        /\ UNCHANGED <<now, edits>>

\* The runs of a user who adds entries, types entries at the end of day
\* files and searches.
NextSearch ==
    \/ \E d \in Days, id \in HandStamps, rem \in Remainders :
           ManualAppend(d, id, rem)
    \/ NextDay
    \/ \E input \in AddInputs : Add(input)
    \/ Sync
    \/ \E query \in Queries : Search(query)

SpecSearch == Init /\ [][NextSearch]_vars

(***************************************************************************)
(* Vocabulary of the properties.                                           *)
(***************************************************************************)

\* The places an entry can stand at: <<day file, index of its block>>.
Positions(fs) ==
    {p \in Days \X (1..MaxEntries) : p[2] <= Len(fs[p[1]].blocks)}

IdAt(fs, p) == fs[p[1]].blocks[p[2]].id

Unstamped(fs, d) ==
    {i \in 1..Len(fs[d].blocks) : fs[d].blocks[i].id = NoId}

\* The rows the index holds for one id, over all four tables.
RowsOf(db, id) ==
    [entry |-> IF id \in DOMAIN db.entries THEN <<db.entries[id]>> ELSE <<>>,
     tags |-> {r \in db.tags : r[1] = id},
     words |-> {r \in db.words : r[1] = id},
     metadata |-> {r \in db.metadata : r[1] = id}]

DatabaseNext == [entries |-> entries', tags |-> tags', words |-> words',
                 metadata |-> metadata', autoincrement |-> autoincrement',
                 synced_files |-> synced_files']

\* The index rows of day file d are the projection of its text, and the text
\* is in the form the sync pass writes.
Mirrors(fs, db, d) ==
    LET parsed == parse_day_entries(d, fs[d].blocks)
        ids == {parsed[i].entry_id : i \in 1..Len(parsed)}
    IN  /\ fs[d].exists
        /\ NoId \notin ids
        /\ Cardinality(ids) = Len(parsed)
        /\ {i \in DOMAIN db.entries : db.entries[i].source_file = d} = ids
        /\ \A i \in 1..Len(parsed) :
               LET e == parsed[i]
               IN  /\ db.entries[e.entry_id] =
                          [entry_uuid |-> NumericUuid(d, e.entry_id),
                           source_file |-> d, timestamp |-> e.timestamp]
                   /\ {r \in db.tags : r[1] = e.entry_id}
                          = {<<e.entry_id, tg>> : tg \in SeqToSet(e.tags)}
                   /\ {r \in db.words : r[1] = e.entry_id}
                          = {<<e.entry_id, w>> :
                                w \in extract_words_from_text(e.lines)}
                   /\ {r \in db.metadata : r[1] = e.entry_id}
                          = {<<e.entry_id, kv[1], kv[2]>> :
                                kv \in SeqToSet(e.metadata)}
                   /\ _render_entry(e) = fs[d].blocks[i]

\* Day file d is one the next non-forced pass reads.
Stale(fs, db, d, today) ==
    /\ fs[d].exists
    /\ \/ d \notin DOMAIN db.synced_files
       \/ db.synced_files[d].mtime # fs[d].mtime
       \/ db.synced_files[d].needs_final_sync /\ d < today

\* Day file d is today's file and holds an entry without an id: a
\* non-forced pass defers its rewrite.
Deferred(fs, d, today) == d = today /\ Unstamped(fs, d) # {}

(***************************************************************************)
(* C1  Global id uniqueness: once a sync pass (or a forced rebuild) has    *)
(* completed, no two entries of the day files carry the same numeric id,   *)
(* be they in different files or in the same file.                         *)
(***************************************************************************)
C1_GlobalIdUniqueness ==
    last.op \in {"sync", "doctor"} =>
        \A p, q \in Positions(files) :
            (p # q /\ IdAt(files, p) # NoId) => IdAt(files, p) # IdAt(files, q)

(***************************************************************************)
(* C2  Id conflict resolution.  Day file B holds an entry stamped with an  *)
(* id c that the index registers to another file A, whose rows mirror its  *)
(* text.  A sync pass that reads B leaves A's text and the rows of c       *)
(* untouched and gives B's entry a freshly minted id other than c, both in *)
(* the index and in B's rewritten text.  When the conflicting entry is B's *)
(* only one, B had no rows and every other file is in step with the index, *)
(* the number of index entries grows by exactly one.                       *)
(***************************************************************************)
ConflictCase(B, i) ==
    /\ i <= Len(files[B].blocks)
    /\ LET c == files[B].blocks[i].id
       IN  /\ c # NoId
           /\ c \in DOMAIN entries
           /\ entries[c].source_file # B
           /\ Mirrors(files, Database, entries[c].source_file)
           /\ Stale(files, Database, B, now)

OwnerUntouched(B, i) ==
    LET c == files[B].blocks[i].id
        A == entries[c].source_file
    IN  /\ files'[A].blocks = files[A].blocks
        /\ RowsOf(DatabaseNext, c) = RowsOf(Database, c)

FreshIdInIndex(B, i) ==
    LET c == files[B].blocks[i].id
        minted == {n \in DOMAIN entries' \ DOMAIN entries :
                       entries'[n].source_file = B}
    IN  /\ minted # {}
        /\ \A n \in minted : n # c /\ n > autoincrement
        /\ (Len(files[B].blocks) = 1
              /\ \A n \in DOMAIN entries : entries[n].source_file # B
              /\ \A d \in Days \ {B} :
                     files[d].exists => Mirrors(files, Database, d))
            => Cardinality(DOMAIN entries')
                   = Cardinality(DOMAIN entries) + 1

FreshIdInText(B, i) ==
    LET c == files[B].blocks[i].id
        n == files'[B].blocks[i].id
    IN  /\ Len(files'[B].blocks) = Len(files[B].blocks)
        /\ n \notin {NoId, c}
        /\ n \notin DOMAIN entries
        /\ n \in DOMAIN entries'
        /\ entries'[n].source_file = B
        /\ B \in SeqToSet(last'.normalized_files)

C2_ConflictResolution ==
    [][last'.op = "sync" =>
        \A B \in Days, i \in 1..MaxEntries :
            ConflictCase(B, i) =>
                /\ OwnerUntouched(B, i)
                /\ FreshIdInIndex(B, i)
                /\ FreshIdInText(B, i)]_vars

(***************************************************************************)
(* C3  Sync idempotence: a sync pass that follows a sync pass, with the    *)
(* same "now" and no day file changed in between, rewrites no file (its    *)
(* list of rewritten files is empty and no file changes) and leaves the    *)
(* entries, tags, words, metadata and synced_files tables as they were.    *)
(***************************************************************************)
C3_SyncIdempotence ==
    [][(last.op = "sync" /\ last'.op = "sync") =>
          /\ last'.normalized_files = <<>>
          /\ UNCHANGED <<files, entries, tags, words, metadata,
                         synced_files>>]_vars

\* A second pass in a row has run over a store where the first one had
\* rewritten a past file and deferred today's.
C3_Witness ==
    /\ last.op = "sync" /\ last.again
    /\ now = 2
    /\ files[1].exists /\ files[1].blocks # <<>> /\ Unstamped(files, 1) = {}
    /\ 2 \in DOMAIN synced_files /\ synced_files[2].needs_final_sync
    /\ DOMAIN entries # {}

(***************************************************************************)
(* C4  A forced rebuild never changes an id stamped in a day file: when    *)
(* the stamped ids are pairwise distinct before the rebuild, every entry   *)
(* that carried an id carries the same id in the text afterwards, and the  *)
(* index registers that id to the entry's file.                            *)
(***************************************************************************)
StampedDistinct(fs) ==
    \A p, q \in Positions(fs) :
        (p # q /\ IdAt(fs, p) # NoId) => IdAt(fs, p) # IdAt(fs, q)

C4_DoctorKeepsStampedIds ==
    [][(last'.op = "doctor" /\ StampedDistinct(files)) =>
          \A p \in Positions(files) :
              IdAt(files, p) # NoId =>
                  /\ p \in Positions(files')
                  /\ IdAt(files', p) = IdAt(files, p)
                  /\ IdAt(files, p) \in DOMAIN entries'
                  /\ entries'[IdAt(files, p)].source_file = p[1]]_vars

(***************************************************************************)
(* C5  Rebuild stability: a forced rebuild that follows a forced rebuild   *)
(* with nothing changed in between yields the same number of index         *)
(* entries, the same count for every tag and the same id for every entry   *)
(* of the text, and rewrites no file.                                      *)
(***************************************************************************)
TagNames(db) == {r[2] : r \in db.tags}

TagCount(db, tg) == Cardinality({r \in db.tags : r[2] = tg})

C5_RebuildStability ==
    [][(last.op = "doctor" /\ last'.op = "doctor") =>
          /\ Cardinality(DOMAIN entries') = Cardinality(DOMAIN entries)
          /\ \A tg \in TagNames(Database) \cup TagNames(DatabaseNext) :
                 TagCount(DatabaseNext, tg) = TagCount(Database, tg)
          /\ \A p \in Positions(files) :
                 p \in Positions(files') /\ IdAt(files', p) = IdAt(files, p)
          /\ last'.normalized_files = <<>>
          /\ files' = files]_vars

(***************************************************************************)
(* C7  Deferred stamping of text.  As stated: while "now" stays on the     *)
(* date of a day file, no add and no non-forced sync pass writes an "[id]" *)
(* into that file (the entries with an id in it are those that had one     *)
(* before, where they stood) or reports the file as rewritten.             *)
(***************************************************************************)
Stamped(fs, d) ==
    {i \in 1..Len(fs[d].blocks) : fs[d].blocks[i].id # NoId}

C7_NoIdWrittenToday ==
    [][last'.op \in {"add", "sync"} =>
          /\ \A i \in Stamped(files', now) :
                 /\ i \in Stamped(files, now)
                 /\ files'[now].blocks[i].id = files[now].blocks[i].id
          /\ now \notin SeqToSet(last'.normalized_files)]_vars

(***************************************************************************)
(* C7, as the code has it.  An entry typed by hand without an id into the  *)
(* day file of "now" stays without an id in the text while "now" stays on  *)
(* that date: no add and no non-forced sync pass stamps it, and a          *)
(* non-forced sync pass neither rewrites nor reports that file while it    *)
(* holds an entry without an id.  The add operation writes its own entry   *)
(* with the id the index gave it.                                          *)
(***************************************************************************)
C7_DeferredStamping ==
    [][last'.op \in {"add", "sync"} =>
          /\ \A i \in Unstamped(files, now) :
                 /\ i <= Len(files'[now].blocks)
                 /\ files'[now].blocks[i] = files[now].blocks[i]
          /\ (last'.op = "sync" /\ Unstamped(files, now) # {}) =>
                 /\ files'[now] = files[now]
                 /\ now \notin SeqToSet(last'.normalized_files)
          /\ last'.op = "add" =>
                 /\ Len(files'[now].blocks) = Len(files[now].blocks) + 1
                 /\ files'[now].blocks[Len(files'[now].blocks)].id
                        = last'.entry_id
                 /\ last'.entry_id # NoId]_vars

\* A pass has indexed today's hand-typed entry, marked the file pending and
\* left its text without an id.
C7_Witness ==
    /\ last.op = "sync"
    /\ Unstamped(files, now) # {}
    /\ now \in DOMAIN synced_files
    /\ synced_files[now].needs_final_sync
    /\ synced_files[now].mtime = files[now].mtime
    /\ \E n \in DOMAIN entries : entries[n].source_file = now

(***************************************************************************)
(* C9  Deferred stamping completes: when a day file is marked pending and  *)
(* still holds an entry without an id, a sync pass whose "now" is after    *)
(* the file's date stamps every entry of the file with an id the index     *)
(* registers to that file, rewrites the file, reports it as rewritten and  *)
(* clears the pending mark, even when the file's modification time is the  *)
(* tracked one.                                                            *)
(***************************************************************************)
Pending(d) ==
    /\ d \in DOMAIN synced_files
    /\ synced_files[d].needs_final_sync
    /\ files[d].exists
    /\ Unstamped(files, d) # {}

C9_DeferredStampingCompletes ==
    [][last'.op = "sync" =>
          \A d \in Days :
              (Pending(d) /\ d < now) =>
                  /\ Len(files'[d].blocks) = Len(files[d].blocks)
                  /\ Unstamped(files', d) = {}
                  /\ \A i \in 1..Len(files'[d].blocks) :
                         LET n == files'[d].blocks[i].id
                         IN  n \in DOMAIN entries'
                                /\ entries'[n].source_file = d
                  /\ files'[d].mtime # files[d].mtime
                  /\ d \in SeqToSet(last'.normalized_files)
                  /\ ~synced_files'[d].needs_final_sync
                  /\ synced_files'[d].mtime = files'[d].mtime]_vars

\* A pass has stamped a file it read for its pending mark alone.
C9_Witness ==
    /\ last.op = "sync"
    /\ \E d \in last.due :
           /\ d \in SeqToSet(last.normalized_files)
           /\ Unstamped(files, d) = {}
           /\ files[d].blocks # <<>>
           /\ ~synced_files[d].needs_final_sync

(***************************************************************************)
(* C10  A forced rebuild runs with deferral disabled: after it, every      *)
(* entry of every day file, today's included, has an id in its text and    *)
(* the index holds a row of that id for that file; every file that held an *)
(* entry without an id is reported as rewritten.                           *)
(***************************************************************************)
C10_DoctorStampsEverything ==
    [][last'.op = "doctor" =>
          \A d \in Days :
              files[d].exists =>
                  /\ Len(files'[d].blocks) = Len(files[d].blocks)
                  /\ Unstamped(files', d) = {}
                  /\ \A i \in 1..Len(files'[d].blocks) :
                         LET n == files'[d].blocks[i].id
                         IN  n \in DOMAIN entries'
                                /\ entries'[n].source_file = d
                  /\ Unstamped(files, d) # {} =>
                         d \in SeqToSet(last'.normalized_files)]_vars

\* A rebuild has stamped and reported today's file.
C10_Witness ==
    /\ last.op = "doctor"
    /\ now \in SeqToSet(last.normalized_files)
    /\ files[now].blocks # <<>>
    /\ Unstamped(files, now) = {}
    /\ \E n \in DOMAIN entries : entries[n].source_file = now

(***************************************************************************)
(* C6  Deletion cascade: with the store in step with its index, delete(id) *)
(* of an indexed entry removes the entry's block from its day file and     *)
(* every row of that id from the index, and leaves every other block of    *)
(* that file, every other file and the rows of every other id unchanged.   *)
(***************************************************************************)
C6_DeletionCascade ==
    [][(/\ last'.op = "delete"
        /\ last'.entry_id \in DOMAIN entries
        /\ \A d \in Days : files[d].exists => Mirrors(files, Database, d)
        /\ \A d \in Days : d \in DOMAIN synced_files
                              /\ ~Stale(files, Database, d, now)) =>
          LET id == last'.entry_id
              d == entries[id].source_file
              i == CHOOSE k \in 1..Len(files[d].blocks) :
                       files[d].blocks[k].id = id
          IN  /\ files'[d].blocks = RemoveAt(files[d].blocks, i)
              /\ \A o \in Days \ {d} : files'[o] = files[o]
              /\ id \notin DOMAIN entries'
              /\ RowsOf(DatabaseNext, id)
                     = [entry |-> <<>>, tags |-> {}, words |-> {},
                        metadata |-> {}]
              /\ \A n \in DOMAIN entries \ {id} :
                     RowsOf(DatabaseNext, n) = RowsOf(Database, n)]_vars

(***************************************************************************)
(* C8  Immediate searchability: an entry of today's day file, written by   *)
(* add or typed by hand without an id, is returned by the next search      *)
(* whose tag it carries (the search syncs first), although its text may    *)
(* still be without an id.                                                 *)
(***************************************************************************)
C8_ImmediateSearchability ==
    [][(last'.op = "search" /\ StampedDistinct(files)) =>
          \A i \in 1..Len(files'[now].blocks) :
              InSeq(last'.query,
                    ParseBlock(now, files'[now].blocks[i]).tags) =>
                  \E k \in 1..Len(last'.matches) :
                      /\ last'.matches[k].day = now
                      /\ last'.matches[k].pos = i]_vars

(***************************************************************************)
(* C11  Sync State invariant: in every reachable state, for each day file  *)
(* whose tracked modification time equals the file's current one, the      *)
(* index rows owned by that file are exactly the projection of the entries *)
(* now in the file: the rows and the entries correspond one to one, an     *)
(* entry with an id in its text to the row of that id, and each row has    *)
(* the timestamp, tags, words and metadata of its entry.                   *)
(***************************************************************************)
OwnedIds(db, d) == {n \in DOMAIN db.entries : db.entries[n].source_file = d}

\* The rows of id n are those entry e of day file d projects to.
RowsProject(db, n, d, e) ==
    /\ n \in DOMAIN db.entries
    /\ db.entries[n].source_file = d
    /\ db.entries[n].timestamp = e.timestamp
    /\ {r[2] : r \in {x \in db.tags : x[1] = n}} = SeqToSet(e.tags)
    /\ {r[2] : r \in {x \in db.words : x[1] = n}}
           = extract_words_from_text(e.lines)
    /\ {<<r[2], r[3]>> : r \in {x \in db.metadata : x[1] = n}}
           = SeqToSet(e.metadata)

IndexCurrent(fs, db, d) ==
    LET parsed == parse_day_entries(d, fs[d].blocks)
        owned == OwnedIds(db, d)
    IN  \E f \in [1..Len(parsed) -> owned] :
            /\ \A i, j \in 1..Len(parsed) : i # j => f[i] # f[j]
            /\ {f[i] : i \in 1..Len(parsed)} = owned
            /\ \A i \in 1..Len(parsed) :
                   /\ parsed[i].entry_id # NoId => f[i] = parsed[i].entry_id
                   /\ RowsProject(db, f[i], d, parsed[i])

C11_SyncStateInvariant ==
    \A d \in DOMAIN synced_files :
        (files[d].exists /\ synced_files[d].mtime = files[d].mtime)
            => IndexCurrent(files, Database, d)

(***************************************************************************)
(* C12  Index reflects text after sync: when a sync pass has processed a   *)
(* changed day file F, the index entries whose source_file is F correspond *)
(* one to one to the entries parsed from F, and the tag, word and metadata *)
(* rows of each are exactly those derived from the text; ids that are no   *)
(* longer in F have no row left.                                           *)
(***************************************************************************)
C12_IndexReflectsText ==
    [][last'.op = "sync" =>
        \A d \in Days :
            Stale(files, Database, d, now)
                => IndexCurrent(files', DatabaseNext, d)]_vars

(***************************************************************************)
(* C13  The index is a pure cache: when a sync pass has run, dropping the  *)
(* index and rebuilding it from the day files (doctor) yields the same     *)
(* entries rows (id, source_file, timestamp) and the same tag, word and    *)
(* metadata rows, and changes no entry text that carries an id.            *)
(***************************************************************************)
C13_IndexIsPureCache ==
    [][(last.op = "sync" /\ last'.op = "doctor") =>
          /\ DOMAIN entries' = DOMAIN entries
          /\ \A n \in DOMAIN entries :
                 /\ entries'[n].source_file = entries[n].source_file
                 /\ entries'[n].timestamp = entries[n].timestamp
          /\ tags' = tags
          /\ words' = words
          /\ metadata' = metadata
          /\ \A p \in Positions(files) :
                 IdAt(files, p) # NoId =>
                     /\ p \in Positions(files')
                     /\ files'[p[1]].blocks[p[2]]
                            = files[p[1]].blocks[p[2]]]_vars

(***************************************************************************)
(* A sync pass in which a step of one file raises (sync.py, the try block  *)
(* of synchronize_diary).                                                  *)
(***************************************************************************)

\* Where the exception is raised inside the transaction of a file:
\*   reindex  in _reindex_entries, after _normalize_entries returned
\*   write    in _write_if_changed, before the file is replaced
\*   track    in the INSERT INTO synced_files, after the file was replaced
\*   commit   in COMMIT
FailSteps == {"reindex", "write", "track", "commit"}

\* An except branch that leaves the statements of the transaction in place.
RollbackKeepsWork(begun, work) == work

\* ROLLBACK: the index is what it was at BEGIN.
Rollback(begun, work) == begun

\* The iterations of the loop over the files before day file stop.
RECURSIVE SyncUpTo(_, _, _, _, _, _, _)
SyncUpTo(st, d, stop, tracked, today, force, process_today) ==
    IF d >= stop THEN st
    ELSE SyncUpTo(SyncFile(st, d, tracked, today, force, process_today),
                  d + 1, stop, tracked, today, force, process_today)

\* The iteration of day file d when step raises: the statements before it
\* have run, the except branch rolls back and re-raises.
SyncFileFailing(st, d, tracked, today, force, process_today, step) ==
    LET Abort(full, work) ==
            [fs |-> IF step \in {"track", "commit"} THEN full.fs ELSE st.fs,
             db |-> Rollback(st.db, work),
             normalized_files |-> st.normalized_files]
        Work(full, norm) ==
            Abort(full,
                  CASE step = "reindex" -> norm.db
                    [] step \in {"write", "track"} ->
                           _reindex_entries(norm.db, norm.normalized)
                    [] step = "commit" -> full.db)
    IN  Work(SyncFile(st, d, tracked, today, force, process_today),
             _normalize_entries(st.db, d,
                                parse_day_entries(d, st.fs[d].blocks)))

\* The index when the pass reaches day file d: the files before it are
\* synced and committed.
BeforeFile(fs, db, d, today) ==
    SyncUpTo([fs |-> fs, db |-> db, normalized_files |-> <<>>],
             1, d, db.synced_files, today, FALSE, FALSE)

\* A non-forced sync pass that raises at day file d.
SyncFails(d, step) ==
    LET st == SyncFileFailing(BeforeFile(files, Database, d, now), d,
                              synced_files, now, FALSE, FALSE, step)
    IN  /\ files[d].exists
        /\ NeedsSync(files[d], d, synced_files, now, FALSE) = TRUE
        /\ sync_modified_diary_files(files, Database, now, FALSE)
               .db.autoincrement <= MaxId
        /\ files' = st.fs
        /\ SetDatabase(st.db)
        /\ last' = Outcome("sync failed", FALSE, <<>>, NoId)
        /\ UNCHANGED <<now, edits>>

NextFail ==
    \/ \E d \in Days, id \in HandStamps, rem \in Remainders :
           ManualAppend(d, id, rem)
    \/ NextDay
    \/ Sync
    \/ \E d \in Days, step \in FailSteps : SyncFails(d, step)

SpecFail == Init /\ [][NextFail]_vars

(***************************************************************************)
(* C14  Per-file atomicity of sync: when a step of syncing one day file    *)
(* fails, the index tables and the synced_files rows are what they were    *)
(* when that file's sync began, and the files synced earlier in the same   *)
(* pass stay committed: each is tracked with its current modification time.*)
(***************************************************************************)
C14_PerFileAtomicity ==
    [][\A d \in Days, step \in FailSteps :
          SyncFails(d, step) =>
              /\ DatabaseNext = BeforeFile(files, Database, d, now).db
              /\ d \in DOMAIN synced_files' =>
                     /\ d \in DOMAIN synced_files
                     /\ synced_files'[d] = synced_files[d]
              /\ OwnedIds(DatabaseNext, d) = OwnedIds(Database, d)
              /\ \A e \in 1..(d - 1) :
                     Stale(files, Database, e, now) =>
                         /\ e \in DOMAIN synced_files'
                         /\ synced_files'[e].mtime = files'[e].mtime]_vars

\* A pass has failed at day file 2 after committing day file 1: file 1 is
\* tracked as current and has its rows, file 2 is neither tracked nor
\* indexed.
C14_Witness ==
    /\ last.op = "sync failed"
    /\ files[1].exists /\ files[2].exists
    /\ 1 \in DOMAIN synced_files /\ synced_files[1].mtime = files[1].mtime
    /\ OwnedIds(Database, 1) # {}
    /\ 2 \notin DOMAIN synced_files
    /\ files[2].blocks # <<>>
    /\ OwnedIds(Database, 2) = {}

(***************************************************************************)
(* commands/add.py with --at: the chronological insert, and the ways a     *)
(* day file is written.                                                    *)
(***************************************************************************)

\* The time given with --at, earlier than the entries typed by hand.
AtTimestamp == "08:00"

\* "HH:MM" strings in the order string comparison gives them.
TimeOrder == <<AtTimestamp, Timestamp>>

Rank(ts) == CHOOSE i \in 1..Len(TimeOrder) : TimeOrder[i] = ts

\* insert_entry_chronologically: the new entry goes before the first header
\* line with a later time, or at the end.
insert_entry_chronologically(blocks, entry_id, timestamp, message_lines, meta, extra_tag_markers) ==
    LET new_entry_content ==
            Block(format_entry_header_with_id(timestamp, message_lines[1],
                      meta, extra_tag_markers, entry_id),
                  Tail(message_lines))
        later == {i \in 1..Len(blocks) : Rank(timestamp) < Rank(blocks[i].ts)}
        at == IF later = {} THEN Len(blocks) + 1
              ELSE CHOOSE i \in later : \A j \in later : i <= j
    IN  SubSeq(blocks, 1, at - 1) \o <<new_entry_content>>
            \o SubSeq(blocks, at, Len(blocks))

\* day_file.open("w") followed by one write per line: the file is emptied
\* when it is opened, and holds the first k entries once k are written.
OpenAndWrite(output_lines, k) == SubSeq(output_lines, 1, k)

\* create_entry with at_str: the index rows are committed by
\* database.add_entry, then the day file is written again in full.
\* written is the number of entries on disk when the process stops; it is
\* the whole file when the command completes.
AddAtWriting(input, written) ==
    LET day_file == now
        embedded_tags == deduplicate_tags(<<>>, input.message_lines)
        unique_explicit == SortedTags(input.explicit_tags)
        extra_tag_markers == FilterOut(unique_explicit,
                                       SeqToSet(embedded_tags))
        all_tags == deduplicate_tags(unique_explicit, input.message_lines)
        entry_id == NextRowid(Database)
    IN  /\ autoincrement < MaxId
        /\ Len(files[day_file].blocks) < MaxEntries
        /\ written <= Len(files[day_file].blocks) + 1
        /\ SetDatabase(add_entry(Database, day_file, AtTimestamp, all_tags,
               extract_words_from_text(input.message_lines),
               input.metadata))
        /\ WriteBlocks(day_file,
               OpenAndWrite(
                   insert_entry_chronologically(files[day_file].blocks,
                       entry_id, AtTimestamp, input.message_lines,
                       input.metadata, extra_tag_markers),
                   written))
        /\ UNCHANGED <<now, edits>>

\* The command completes.
AddAt(input) ==
    /\ AddAtWriting(input, Len(files[now].blocks) + 1)
    /\ last' = Outcome("add at", TRUE, <<>>, NextRowid(Database))

\* The process is stopped (killed, power lost) while it writes the file.
AddAtInterrupted(input, written) ==
    /\ written <= Len(files[now].blocks)
    /\ AddAtWriting(input, written)
    /\ last' = Outcome("add at interrupted", FALSE, <<>>,
                       NextRowid(Database))

\* The steps of a sync pass around the write of the file.
WriteSteps == {"write", "track"}

NextCrash ==
    \/ \E d \in Days, rem \in Remainders : ManualAppend(d, NoId, rem)
    \/ Sync
    \/ \E d \in Days, step \in WriteSteps : SyncFails(d, step)
    \/ \E input \in AddInputs : AddAt(input)
    \/ \E input \in AddInputs, written \in 0..MaxEntries :
           AddAtInterrupted(input, written)

SpecCrash == Init /\ [][NextCrash]_vars

(***************************************************************************)
(* C15  Crash-safe text rewrites: an operation that rewrites an existing   *)
(* day file writes a temporary file and renames it over the day file, so   *)
(* whenever the operation stops, the day file holds either all of its old  *)
(* content or all of its new content.  Stated for the rewrite of a sync    *)
(* pass and for the chronological insert.                                  *)
(***************************************************************************)
C15_CrashSafeRewrites ==
    [][/\ \A d \in Days, step \in FailSteps :
              SyncFails(d, step) =>
                  files'[d].blocks \in
                      {files[d].blocks,
                       sync_modified_diary_files(files, Database, now,
                                                 FALSE).fs[d].blocks}
       /\ \A input \in AddInputs, written \in 0..MaxEntries :
              AddAtInterrupted(input, written) =>
                  files'[now].blocks \in
                      {files[now].blocks,
                       insert_entry_chronologically(files[now].blocks,
                           NextRowid(Database), AtTimestamp,
                           input.message_lines, input.metadata,
                           FilterOut(input.explicit_tags,
                               SeqToSet(deduplicate_tags(<<>>,
                                   input.message_lines))))}]_vars

(***************************************************************************)
(* database.add_entry called with an entry_id.                             *)
(***************************************************************************)

\* Ids add_entry is called with.
MaxUpsertId == 2

\* What add_entry is called with besides the id.
UpsertInputs ==
    [source_file : Days,
     timestamp : {Timestamp, AtTimestamp},
     tags : {<<>>, <<"home">>},
     words : {{}, {"old"}},
     metadata : {<<>>, << <<"status", "done">> >>}]

\* _ensure_entry_id: INSERT without an id, UPDATE of source_file and
\* timestamp when the id has a row, INSERT with the id when it has none.
_ensure_entry_id(db, source_file, timestamp, entry_id) ==
    IF entry_id = NoId
    THEN [db |-> InsertEntry(db, NextRowid(db),
                     NumericUuid(source_file, NextRowid(db)), source_file,
                     timestamp),
          entry_id |-> NextRowid(db), is_created |-> TRUE]
    ELSE IF entry_id \in DOMAIN db.entries
    THEN [db |-> [db EXCEPT !.entries[entry_id].source_file = source_file,
                            !.entries[entry_id].timestamp = timestamp],
          entry_id |-> entry_id, is_created |-> FALSE]
    ELSE [db |-> InsertEntry(db, entry_id,
                     NumericUuid(source_file, entry_id), source_file,
                     timestamp),
          entry_id |-> entry_id, is_created |-> TRUE]

\* INSERT INTO tags / metadata of a row that breaks UNIQUE(entry_id,
\* tag_name) or UNIQUE(entry_id, meta_key): sqlite3.IntegrityError.
IntegrityError(db, id, tagseq, meta) ==
    \/ \E tg \in SeqToSet(tagseq) : <<id, tg>> \in db.tags
    \/ \E kv \in SeqToSet(meta) :
           \E r \in db.metadata : r[1] = id /\ r[2] = kv[1]

\* database.add_entry: _ensure_entry_id and _upsert_source_records in one
\* transaction, rolled back and re-raised on sqlite3.Error.  The words table
\* has no UNIQUE constraint: repeated_words are the rows the call stores a
\* second time.
add_entry_with_id(db, source_file, timestamp, tagseq, wordset, meta, entry_id) ==
    LET Records(ensured) ==
            IF IntegrityError(ensured.db, ensured.entry_id, tagseq, meta)
            THEN [db |-> db, raised |-> TRUE, entry_id |-> NoId,
                  repeated_words |-> {}]
            ELSE [db |-> InsertSourceRecords(ensured.db, ensured.entry_id,
                             tagseq, wordset, meta),
                  raised |-> FALSE, entry_id |-> ensured.entry_id,
                  repeated_words |->
                      {<<ensured.entry_id, w>> : w \in wordset}
                          \cap ensured.db.words]
    IN  Records(_ensure_entry_id(db, source_file, timestamp, entry_id))

UpsertEntry(entry_id, input) ==
    LET r == add_entry_with_id(Database, input.source_file, input.timestamp,
                 input.tags, input.words, input.metadata, entry_id)
    IN  /\ r.db.autoincrement <= MaxUpsertId
        /\ SetDatabase(r.db)
        /\ last' = Outcome("add_entry", ~r.raised, <<>>, r.entry_id)
        /\ UNCHANGED <<files, now, edits>>

NextUpsert ==
    \E entry_id \in 0..MaxUpsertId, input \in UpsertInputs :
        UpsertEntry(entry_id, input)

SpecUpsert == Init /\ [][NextUpsert]_vars

(***************************************************************************)
(* C16  Index upsert has replace semantics: database.add_entry called with *)
(* an id inserts a row when the id has none and otherwise updates its      *)
(* source_file and timestamp; afterwards the tag, word and metadata rows   *)
(* of the id are exactly the supplied ones; and applying the same call a   *)
(* second time succeeds and leaves the rows as they were after the first.  *)
(***************************************************************************)
C16_UpsertReplaces ==
    [][\A entry_id \in 1..MaxUpsertId, input \in UpsertInputs :
          UpsertEntry(entry_id, input) =>
              /\ last'.ok
              /\ entry_id \in DOMAIN entries'
              /\ entries'[entry_id].source_file = input.source_file
              /\ entries'[entry_id].timestamp = input.timestamp
              /\ {r \in tags' : r[1] = entry_id}
                     = {<<entry_id, tg>> : tg \in SeqToSet(input.tags)}
              /\ {r \in words' : r[1] = entry_id}
                     = {<<entry_id, w>> : w \in input.words}
              /\ {r \in metadata' : r[1] = entry_id}
                     = {<<entry_id, kv[1], kv[2]>> :
                           kv \in SeqToSet(input.metadata)}
              /\ LET twice == add_entry_with_id(DatabaseNext,
                                  input.source_file, input.timestamp,
                                  input.tags, input.words, input.metadata,
                                  entry_id)
                 IN  /\ ~twice.raised
                     /\ twice.db = DatabaseNext
                     /\ twice.repeated_words = {}]_vars

(***************************************************************************)
(* The entry codec: what create_entry hands to format_entry_header, and    *)
(* what parse_day_entries reads back from the line.                        *)
(***************************************************************************)

\* Messages given to add:
\*   old, note #work, a | b, [home] old, and the empty message.
Messages ==
    { <<Word("old")>>,
      <<Word("note"), Hash("work")>>,
      <<Word("a"), Pipe, Word("b")>>,
      <<LegacyTag("home"), Word("old")>>,
      <<>> }

\* An entry must include text, metadata or tags (EmptyEntryError).
CodecInputs ==
    {input \in [message_lines : {<<m>> : m \in Messages},
                metadata : {<<>>, << <<"status", "done">> >>},
                explicit_tags : {<<>>, <<"home">>}] :
        \/ input.message_lines[1] # <<>>
        \/ input.metadata # <<>>
        \/ input.explicit_tags # <<>>}

NextCodec ==
    \/ \E input \in CodecInputs : Add(input)
    \/ NextDay

SpecCodec == Init /\ [][NextCodec]_vars

(***************************************************************************)
(* C17  Codec round trip: for every message, metadata mapping and set of   *)
(* tags not visible as inline hashtags, parsing the header line that       *)
(* format_entry_header produced gives back the same message, the same      *)
(* metadata mapping and the same tag set (the given tags together with the *)
(* hashtags of the message).                                               *)
(***************************************************************************)
C17_CodecRoundTrip ==
    [][\A input \in CodecInputs :
          Add(input) =>
              LET written == files'[now].blocks
                  entry == parse_day_entries(now, written)[Len(written)]
              IN  /\ entry.lines[1] = input.message_lines[1]
                  /\ SeqToSet(entry.metadata) = SeqToSet(input.metadata)
                  /\ SeqToSet(entry.tags) =
                         SeqToSet(deduplicate_tags(input.explicit_tags,
                                                   input.message_lines))]_vars

(***************************************************************************)
(* The query compiler: parsers.py (numeric values, comparison and range    *)
(* expressions) and the metadata clauses of build_search_query.            *)
(***************************************************************************)

\* A string as the sequence of its characters, for the strings of the
\* model: metadata values and filter expressions.
Chars(t) ==
    CASE t = "wip" -> <<"w", "i", "p">>
      [] t = "done" -> <<"d", "o", "n", "e">>
      [] t = "Done" -> <<"D", "o", "n", "e">>
      [] t = "2h" -> <<"2", "h">>
      [] t = "45m" -> <<"4", "5", "m">>
      [] t = "abc" -> <<"a", "b", "c">>
      [] t = ">1" -> <<">", "1">>
      [] t = ">=2" -> <<">", "=", "2">>
      [] t = "<1" -> <<"<", "1">>
      [] t = "1..2" -> <<"1", ".", ".", "2">>
      [] t = "1.." -> <<"1", ".", ".">>
      [] t = "..1.5" -> <<".", ".", "1", ".", "5">>
      [] t = ".." -> <<".", ".">>
      [] t = "d*" -> <<"d", "*">>
      [] t = "[dw]?*" -> <<"[", "d", "w", "]", "?", "*">>
      [] t = "" -> <<>>
      [] t = "old" -> <<"o", "l", "d">>
      [] t = "bold" -> <<"b", "o", "l", "d">>
      [] t = "new" -> <<"n", "e", "w">>
      [] t = "ol" -> <<"o", "l">>

\* str.lower(), for the capital letters of the model.
LowerChar(c) ==
    CASE c = "D" -> "d" [] c = "H" -> "h" [] c = "M" -> "m" [] OTHER -> c

Lower(str) == [i \in 1..Len(str) |-> LowerChar(str[i])]

DigitChars == <<"0", "1", "2", "3", "4", "5", "6", "7", "8", "9">>

IsDigits(str) ==
    /\ str # <<>>
    /\ \A i \in 1..Len(str) : InSeq(str[i], DigitChars)

RECURSIVE IntOf(_)
IntOf(str) ==
    IF str = <<>> THEN 0
    ELSE IntOf(SubSeq(str, 1, Len(str) - 1)) * 10
             + (CHOOSE n \in 0..9 : DigitChars[n + 1] = str[Len(str)])

Unsigned(str) ==
    IF str # <<>> /\ Head(str) \in {"-", "+"} THEN Tail(str) ELSE str

\* NUMERIC_PATTERN: ^[-+]?\d+(?:\.\d+)?$
NUMERIC_PATTERN(str) ==
    LET u == Unsigned(str)
    IN  \/ IsDigits(u)
        \/ \E i \in 1..Len(u) :
               /\ u[i] = "."
               /\ IsDigits(SubSeq(u, 1, i - 1))
               /\ IsDigits(SubSeq(u, i + 1, Len(u)))

\* float(str) in tenths; the strings of the model have at most one digit
\* after the point.
Tenths(str) ==
    LET u == Unsigned(str)
        sign == IF str # <<>> /\ Head(str) = "-" THEN -1 ELSE 1
        point == IF InSeq(".", u)
                 THEN CHOOSE i \in 1..Len(u) : u[i] = "." ELSE Len(u) + 1
    IN  sign * (IntOf(SubSeq(u, 1, point - 1)) * 10
                   + IntOf(SubSeq(u, point + 1, Len(u))))

None == [some |-> FALSE, n |-> 0]

Some(n) == [some |-> TRUE, n |-> n]

\* A parse_numeric_value that takes minutes for hours.
parse_numeric_value_minutes_as_hours(raw_value) ==
    LET value == Lower(raw_value)
        body == SubSeq(value, 1, Len(value) - 1)
    IN  IF value # <<>> /\ value[Len(value)] \in {"h", "m"}
               /\ NUMERIC_PATTERN(body)
        THEN Some(Tenths(body) * 60)
        ELSE IF NUMERIC_PATTERN(value) THEN Some(Tenths(value) * 60)
        ELSE None

\* parse_numeric_value, in units of a 600th of an hour: "2h" is 1200, "45m"
\* is 450 and "1" is 600.
parse_numeric_value(raw_value) ==
    LET value == Lower(raw_value)
        body == SubSeq(value, 1, Len(value) - 1)
    IN  IF value # <<>> /\ value[Len(value)] = "h" /\ NUMERIC_PATTERN(body)
        THEN Some(Tenths(body) * 60)
        ELSE IF value # <<>> /\ value[Len(value)] = "m"
                    /\ NUMERIC_PATTERN(body)
        THEN Some(Tenths(body))
        ELSE IF NUMERIC_PATTERN(value) THEN Some(Tenths(value) * 60)
        ELSE None

StartsWith(str, prefix) ==
    /\ Len(str) >= Len(prefix)
    /\ SubSeq(str, 1, Len(prefix)) = prefix

\* for operator in (">=", "<=", ">", "<")
ComparisonOperators ==
    << <<">", "=">>, <<"<", "=">>, <<">">>, <<"<">> >>

\* parse_comparison_expression: the first operator the expression starts
\* with and that a number follows.
RECURSIVE TryOperators(_, _)
TryOperators(expression, operators) ==
    IF operators = <<>> THEN [some |-> FALSE, operator |-> <<>>, n |-> 0]
    ELSE LET operator == Head(operators)
             remainder == SubSeq(expression, Len(operator) + 1,
                                 Len(expression))
         IN  IF StartsWith(expression, operator)
                    /\ parse_numeric_value(remainder).some
             THEN [some |-> TRUE, operator |-> operator,
                   n |-> parse_numeric_value(remainder).n]
             ELSE TryOperators(expression, Tail(operators))

parse_comparison_expression(expression) ==
    TryOperators(expression, ComparisonOperators)

\* parse_range_expression: the bounds around the first "..", each None
\* when its side is empty; None for the whole when there is no ".." or a
\* side is not a number.
parse_range_expression(expression) ==
    LET dots == {i \in 1..(Len(expression) - 1) :
                    expression[i] = "." /\ expression[i + 1] = "."}
        at == CHOOSE i \in dots : \A j \in dots : i <= j
        lower_raw == SubSeq(expression, 1, at - 1)
        upper_raw == SubSeq(expression, at + 2, Len(expression))
        lower == IF lower_raw # <<>> THEN parse_numeric_value(lower_raw)
                 ELSE None
        upper == IF upper_raw # <<>> THEN parse_numeric_value(upper_raw)
                 ELSE None
    IN  IF dots = {} THEN [some |-> FALSE, lower |-> None, upper |-> None]
        ELSE IF (lower_raw # <<>> /\ ~lower.some)
                    \/ (upper_raw # <<>> /\ ~upper.some)
        THEN [some |-> FALSE, lower |-> None, upper |-> None]
        ELSE [some |-> TRUE, lower |-> lower, upper |-> upper]

\* SQLite's GLOB: * for any run, ? for one character, [..] for one of the
\* listed characters; the match is case sensitive.
RECURSIVE Glob(_, _)
Glob(pattern, str) ==
    IF pattern = <<>> THEN str = <<>>
    ELSE IF Head(pattern) = "*"
    THEN \/ Glob(Tail(pattern), str)
         \/ str # <<>> /\ Glob(pattern, Tail(str))
    ELSE IF Head(pattern) = "?"
    THEN str # <<>> /\ Glob(Tail(pattern), Tail(str))
    ELSE IF Head(pattern) = "["
    THEN LET closing == {i \in 3..Len(pattern) : pattern[i] = "]"}
             close == CHOOSE i \in closing : \A j \in closing : i <= j
         IN  /\ closing # {}
             /\ str # <<>>
             /\ InSeq(Head(str), SubSeq(pattern, 2, close - 1))
             /\ Glob(SubSeq(pattern, close + 1, Len(pattern)), Tail(str))
    ELSE /\ str # <<>>
         /\ Head(str) = Head(pattern)
         /\ Glob(Tail(pattern), Tail(str))

\* m.numeric_value {op} ?: NULL compares to nothing.
NumericClause(numeric_value, operator, n) ==
    /\ numeric_value.some
    /\ CASE operator = <<">", "=">> -> numeric_value.n >= n
         [] operator = <<"<", "=">> -> numeric_value.n <= n
         [] operator = <<">">> -> numeric_value.n > n
         [] operator = <<"<">> -> numeric_value.n < n

\* The clauses build_search_query adds for an inclusion filter key:expr
\* besides m.meta_key = key, applied to a row of that key.  numeric_value
\* is what the row was stored with, parse_numeric_value(meta_value).
IncludeClause(expression, meta_value) ==
    LET comp == parse_comparison_expression(expression)
        rng == parse_range_expression(expression)
        numeric_value == parse_numeric_value(meta_value)
    IN  IF comp.some
        THEN NumericClause(numeric_value, comp.operator, comp.n)
        ELSE IF rng.some
        THEN /\ rng.lower.some =>
                    NumericClause(numeric_value, <<">", "=">>, rng.lower.n)
             /\ rng.upper.some =>
                    NumericClause(numeric_value, <<"<", "=">>, rng.upper.n)
        ELSE IF \E i \in 1..Len(expression) :
                    expression[i] \in {"*", "?", "[", "]"}
        THEN Glob(expression, meta_value)
        ELSE meta_value = expression

\* tokenize_query for a query of metadata filters: "key:expr" is an
\* inclusion filter, "-key:expr" an exclusion filter.
tokenize_query(query) ==
    [include_meta |-> FilterOut(query, {f \in SeqToSet(query) : f.neg}),
     exclude_meta |-> FilterOut(query, {f \in SeqToSet(query) : ~f.neg})]

\* build_search_query and its execution for metadata filters: the ids of
\* the entries rows the WHERE clause keeps.
build_meta_query(db, include_meta, exclude_meta) ==
    {id \in DOMAIN db.entries :
        /\ \A i \in 1..Len(include_meta) :
               \E r \in db.metadata :
                   /\ r[1] = id
                   /\ r[2] = include_meta[i].key
                   /\ IncludeClause(Chars(include_meta[i].value),
                                    Chars(r[3]))
        /\ \A i \in 1..Len(exclude_meta) :
               ~\E r \in db.metadata :
                    /\ r[1] = id
                    /\ r[2] = exclude_meta[i].key
                    /\ r[3] = exclude_meta[i].value}

\* The entries add is called with: the three of the example,
\*   a status:wip / b status:done time:2h / c status:done time:45m,
\* and one whose time is not a number and whose status is capitalised.
QueryEntries ==
    { [message_lines |-> << <<Word("a")>> >>,
       metadata |-> << <<"status", "wip">> >>, explicit_tags |-> <<>>],
      [message_lines |-> << <<Word("b")>> >>,
       metadata |-> << <<"status", "done">>, <<"time", "2h">> >>,
       explicit_tags |-> <<>>],
      [message_lines |-> << <<Word("c")>> >>,
       metadata |-> << <<"status", "done">>, <<"time", "45m">> >>,
       explicit_tags |-> <<>>],
      [message_lines |-> << <<Word("d")>> >>,
       metadata |-> << <<"status", "Done">>, <<"time", "abc">> >>,
       explicit_tags |-> <<>>] }

\* The filters a search is given.
MetaFilters ==
    ([neg : BOOLEAN, key : {"status"}, value : {"done"}])
      \cup [neg : {FALSE}, key : {"status"}, value : {"d*", "[dw]?*"}]
      \cup [neg : {FALSE}, key : {"time"},
            value : {">1", ">=2", "<1", "1..2", "1..", "..1.5", ".."}]

\* KaydetService.search_entries for a query of one metadata filter.
SearchMeta(filter) ==
    LET st == EnsureIndex(files, Database, now)
        tokens == tokenize_query(<<filter>>)
    IN  /\ st.db.autoincrement <= MaxId
        /\ files' = st.fs
        /\ SetDatabase(st.db)
        /\ last' = Report("search", TRUE, st.normalized_files, NoId, {},
                          filter.value,
                          SortByIdDescending(load_matches(
                              build_meta_query(st.db, tokens.include_meta,
                                               tokens.exclude_meta),
                              st.fs, st.db)))
        /\ UNCHANGED <<now, edits>>

NextQuery ==
    \/ \E input \in QueryEntries : Add(input)
    \/ NextDay
    \/ \E filter \in MetaFilters : SearchMeta(filter)

SpecQuery == Init /\ [][NextQuery]_vars

(***************************************************************************)
(* Vocabulary of the query properties.                                     *)
(***************************************************************************)

\* The values the entry at position p of the day files has for key.
ValuesAt(fs, p, key) ==
    LET entry == parse_day_entries(p[1], fs[p[1]].blocks)[p[2]]
    IN  {kv[2] : kv \in {x \in SeqToSet(entry.metadata) : x[1] = key}}

\* The positions of the entries a search returned.
ReturnedBy(result) ==
    {<<result.matches[i].day, result.matches[i].pos>> :
        i \in 1..Len(result.matches)}

\* Metadata values from which no number derives: neither a number, nor Nh,
\* nor Nm.
NotNumeric == {"wip", "done", "Done", "abc"}

\* The filter expressions by their written form.
ComparisonForms == {">1", ">=2", "<1"}

RangeForms == {"1..2", "1..", "..1.5", ".."}

(***************************************************************************)
(* C18  Query semantics: key:value returns exactly the entries whose       *)
(* metadata has that key with that value; key:>n returns exactly the       *)
(* entries whose derived numeric value for the key exceeds n, where 2h     *)
(* counts as 2 and 45m as 0.75; -key:value returns exactly the entries     *)
(* that have no key=value metadata.  With the entries status:wip,          *)
(* status:done time:2h and status:done time:45m stored, status:done        *)
(* returns the two done entries, time:>1 the time:2h entry only and        *)
(* -status:done the wip entry only.                                        *)
(***************************************************************************)
C18_QuerySemantics ==
    [][/\ SearchMeta([neg |-> FALSE, key |-> "status", value |-> "done"])
              => ReturnedBy(last') =
                     {p \in Positions(files') :
                         "done" \in ValuesAt(files', p, "status")}
       /\ SearchMeta([neg |-> TRUE, key |-> "status", value |-> "done"])
              => ReturnedBy(last') =
                     {p \in Positions(files') :
                         "done" \notin ValuesAt(files', p, "status")}
       /\ SearchMeta([neg |-> FALSE, key |-> "time", value |-> ">1"])
              => ReturnedBy(last') =
                     {p \in Positions(files') :
                         "2h" \in ValuesAt(files', p, "time")}]_vars

\* time:>1 has been searched over the three entries of the example and has
\* returned one entry, the one with time:2h.
C18_Witness ==
    /\ last.op = "search" /\ last.query = ">1"
    /\ Cardinality(Positions(files)) = 3
    /\ \E p \in Positions(files) : ValuesAt(files, p, "status") = {"wip"}
    /\ \E p \in Positions(files) : ValuesAt(files, p, "time") = {"2h"}
    /\ \E p \in Positions(files) : ValuesAt(files, p, "time") = {"45m"}
    /\ Len(last.matches) = 1
    /\ \A p \in ReturnedBy(last) : ValuesAt(files, p, "time") = {"2h"}

(***************************************************************************)
(* C19  An entry whose metadata value for a key has no derived numeric     *)
(* value is never returned by a comparison filter on that key (k:>n,       *)
(* k:>=n, k:<n, k:<=n) nor by a range filter on it (k:lo..hi, k:lo..,      *)
(* k:..hi, k:..).                                                          *)
(***************************************************************************)
C19_NonNumericNeverMatches ==
    [][\A filter \in MetaFilters :
          (/\ ~filter.neg
           /\ filter.value \in ComparisonForms \cup RangeForms
           /\ SearchMeta(filter)) =>
              \A p \in ReturnedBy(last') :
                  ValuesAt(files', p, filter.key) \cap NotNumeric = {}]_vars

(***************************************************************************)
(* C20  Each inclusion filter key:expr applies one predicate, chosen by    *)
(* the first rule that matches: a comparison operator followed by a number *)
(* compares the derived numeric value; lo..hi with either bound optional   *)
(* checks the derived numeric value against the inclusive bounds; an       *)
(* expression with * ? [ or ] is a glob match on the stored string;        *)
(* anything else is a case-insensitive exact match on the stored string.   *)
(***************************************************************************)
RulePredicate(expr, stored) ==
    LET numeric_value == parse_numeric_value(Chars(stored))
        comp == parse_comparison_expression(Chars(expr))
        rng == parse_range_expression(Chars(expr))
    IN  IF expr \in ComparisonForms
        THEN NumericClause(numeric_value, comp.operator, comp.n)
        ELSE IF expr \in RangeForms
        THEN /\ numeric_value.some
             /\ rng.lower.some => numeric_value.n >= rng.lower.n
             /\ rng.upper.some => numeric_value.n <= rng.upper.n
        ELSE IF \E i \in 1..Len(Chars(expr)) :
                    Chars(expr)[i] \in {"*", "?", "[", "]"}
        THEN Glob(Chars(expr), Chars(stored))
        ELSE Lower(Chars(stored)) = Lower(Chars(expr))

C20_OnePredicatePerFilter ==
    [][\A filter \in MetaFilters :
          (~filter.neg /\ SearchMeta(filter)) =>
              ReturnedBy(last') =
                  {p \in Positions(files') :
                      \E v \in ValuesAt(files', p, filter.key) :
                          RulePredicate(filter.value, v)}]_vars

(***************************************************************************)
(* The query tokenizer: new_parser.py.  A query text is a sequence of      *)
(* characters; a token is a record of its type and its value.              *)
(***************************************************************************)

Whitespace == {" ", "\t"}

LowercaseLetters ==
    {"a", "b", "c", "d", "e", "f", "g", "h", "i", "j", "k", "l", "m", "n",
     "o", "p", "q", "r", "s", "t", "u", "v", "w", "x", "y", "z"}

\* The characters [a-z0-9_-] of a metadata key after its first letter.
KeyChars == LowercaseLetters \cup SeqToSet(DigitChars) \cup {"_", "-"}

\* "sub in word".
Contains(word, sub) ==
    \E i \in 1..(Len(word) - Len(sub) + 1) :
        SubSeq(word, i, i + Len(sub) - 1) = sub

\* The length of the first run of characters of text that are not
\* whitespace.
RECURSIVE RunLength(_)
RunLength(text) ==
    IF text = <<>> \/ Head(text) \in Whitespace THEN 0
    ELSE 1 + RunLength(Tail(text))

\* text.split(): the words between runs of whitespace.
RECURSIVE split(_)
split(text) ==
    IF text = <<>> THEN <<>>
    ELSE IF Head(text) \in Whitespace THEN split(Tail(text))
    ELSE <<SubSeq(text, 1, RunLength(text))>>
             \o split(SubSeq(text, RunLength(text) + 1, Len(text)))

\* How far [a-z0-9_-]* matches in word from position i on.
RECURSIVE KeyRun(_, _)
KeyRun(word, i) ==
    IF i <= Len(word) /\ word[i] \in KeyChars THEN KeyRun(word, i + 1) ELSE i

KeyPatternDigitFirst(word) ==
    IF word # <<>> /\ word[1] \in KeyChars
                   /\ KeyRun(word, 2) <= Len(word)
                   /\ word[KeyRun(word, 2)] = ":"
    THEN KeyRun(word, 2) ELSE 0

\* re.match(r"^[a-z][a-z0-9_-]*:", word): the position of the colon that
\* ends the match, 0 when there is no match.
KeyPattern(word) ==
    IF word # <<>> /\ word[1] \in LowercaseLetters
                   /\ KeyRun(word, 2) <= Len(word)
                   /\ word[KeyRun(word, 2)] = ":"
    THEN KeyRun(word, 2) ELSE 0

\* The position of the first sep in word, 0 when there is none.
RECURSIVE Find(_, _, _)
Find(word, sep, i) ==
    IF i > Len(word) THEN 0
    ELSE IF word[i] = sep THEN i ELSE Find(word, sep, i + 1)

\* word.split(sep, 1).
SplitOnce(word, sep) ==
    IF Find(word, sep, 1) = 0 THEN <<word>>
    ELSE <<SubSeq(word, 1, Find(word, sep, 1) - 1),
           SubSeq(word, Find(word, sep, 1) + 1, Len(word))>>

Token(type, value) == [type |-> type, value |-> value]

_parse_base_token(word) ==
    IF Contains(word, <<":", "/", "/">>) THEN Token("WORD", word)
    ELSE IF word # <<>> /\ Head(word) = "#" THEN Token("TAG", Tail(word))
    ELSE IF /\ KeyPattern(word) > 0
            /\ Len(SplitOnce(word, ":")) = 2
            /\ SplitOnce(word, ":")[1] # <<>>
            /\ SplitOnce(word, ":")[2] # <<>>
    THEN Token("METADATA", SplitOnce(word, ":"))
    ELSE Token("WORD", word)

\* f"EXCLUDE_{base_token.type}".
ExcludeType(type) ==
    CASE type = "WORD" -> "EXCLUDE_WORD"
      [] type = "TAG" -> "EXCLUDE_TAG"
      [] type = "METADATA" -> "EXCLUDE_METADATA"

tokenize(text) ==
    [i \in 1..Len(split(text)) |->
        IF Head(split(text)[i]) = "-" /\ Len(split(text)[i]) > 1
        THEN Token(ExcludeType(_parse_base_token(Tail(split(text)[i])).type),
                   _parse_base_token(Tail(split(text)[i])).value)
        ELSE _parse_base_token(split(text)[i])]

\* The words of the queries: those of the tokenizer's tests, shortened,
\* and their neighbours.
QueryWords ==
    { <<"a", ":", "/", "/", "b">>, <<"#", "w">>, <<"k", ":", "v">>,
      <<"k", ":", "v", ":", "w">>, <<"w", ":">>, <<":", "w">>,
      <<"1", ":", "3">>, <<"U", ":", "c">>, <<"k", "_", "1", ":", "v">>,
      <<"k", ":", "/", "/">>, <<"#", ":", "/", "/">>, <<"t">>, <<"-">>,
      <<"-", "#", "w">>, <<"-", "t">>, <<"-", "k", ":", "v">>,
      <<"-", "-", "t">>, <<"-", "k", ":">>, <<"-", "a", ":", "/", "/">> }

\* The query texts: one word, with or without whitespace around it, or two
\* words with a run of whitespace between them.
QueryTexts ==
    {pad \o w \o pad : w \in QueryWords, pad \in {<<>>, <<" ">>}}
      \cup {w1 \o <<" ", "\t">> \o w2 :
               w1 \in QueryWords, w2 \in QueryWords}

\* tokenize is called with a query text.
Tokenize(text) ==
    /\ last' = Report("tokenize", TRUE, <<>>, NoId, {}, text, tokenize(text))
    /\ UNCHANGED <<files, entries, tags, words, metadata, autoincrement,
                   synced_files, now, edits>>

NextTokenize == \E text \in QueryTexts : Tokenize(text)

SpecTokenize == Init /\ [][NextTokenize]_vars

\* The positions of text at which a whitespace-separated word starts, and
\* the word that starts at position i.
WordStarts(text) ==
    {i \in 1..Len(text) :
        /\ text[i] \notin Whitespace
        /\ i = 1 \/ text[i - 1] \in Whitespace}

WordAt(text, i) ==
    SubSeq(text, i,
           CHOOSE j \in i..Len(text) :
               /\ \A k \in i..j : text[k] \notin Whitespace
               /\ j = Len(text) \/ text[j + 1] \in Whitespace)

\* The k-th smallest member of a set of numbers.
Nth(S, k) == CHOOSE n \in S : Cardinality({m \in S : m <= n}) = k

\* A word is key:rest when a colon at position i follows a key and is
\* followed by something.
IsKeyRest(word, i) ==
    /\ 1 < i /\ i < Len(word)
    /\ word[i] = ":"
    /\ word[1] \in LowercaseLetters
    /\ \A j \in 2..(i - 1) : word[j] \in KeyChars

\* The class the rules give a word that is not an exclusion.
BaseClass(word) ==
    IF Contains(word, <<":", "/", "/">>) THEN "WORD"
    ELSE IF Head(word) = "#" THEN "TAG"
    ELSE IF \E i \in 1..Len(word) : IsKeyRest(word, i) THEN "METADATA"
    ELSE "WORD"

\* Token tok is the one the rules give a word that is not an exclusion.
IsBaseTokenOf(tok, type, word) ==
    /\ tok.type = type
    /\ BaseClass(word) = "METADATA" =>
           \E i \in 1..Len(word) :
               /\ IsKeyRest(word, i)
               /\ tok.value = <<SubSeq(word, 1, i - 1),
                                SubSeq(word, i + 1, Len(word))>>

IsTokenOf(tok, word) ==
    IF Len(word) > 1 /\ Head(word) = "-"
    THEN IsBaseTokenOf(tok, ExcludeType(BaseClass(Tail(word))), Tail(word))
    ELSE IsBaseTokenOf(tok, BaseClass(word), word)

\* C21: tokenizing a query yields exactly one token per whitespace-
\* separated word, in order; the token is WORD when the word contains
\* "://", TAG when it starts with "#", METADATA(key, rest) when it is a key
\* [a-z][a-z0-9_-]* followed by ":" and a non-empty rest, WORD otherwise;
\* a word longer than one character that starts with "-" yields the
\* EXCLUDE_ form of the class of what follows the "-".
C21_TokenClasses ==
    last.op = "tokenize" =>
        /\ Len(last.matches) = Cardinality(WordStarts(last.query))
        /\ \A k \in 1..Len(last.matches) :
               IsTokenOf(last.matches[k],
                         WordAt(last.query, Nth(WordStarts(last.query), k)))

\* A query of two words, an excluded key:value and a word that ends in a
\* colon, has been tokenized.
C21_Witness ==
    /\ last.op = "tokenize"
    /\ Len(last.matches) = 2
    /\ last.matches[1].type = "EXCLUDE_METADATA"
    /\ last.matches[1].value = << <<"k">>, <<"v">> >>
    /\ last.matches[2].type = "WORD"
    /\ last.query[Len(last.query)] = ":"

(***************************************************************************)
(* Free-text search: the rows the query of build_search_query selects for  *)
(* one included term, load_matches and the order of the results.           *)
(***************************************************************************)

\* The rows of a table, one after the other.
RECURSIVE Enumerate(_)
Enumerate(S) ==
    IF S = {} THEN <<>>
    ELSE LET Rest(x) == <<x>> \o Enumerate(S \ {x})
         IN  Rest(CHOOSE x \in S : TRUE)

\* list.sort on pairs of a numeric key and an item: a stable sort by the
\* key.
RECURSIVE InsertByKey(_, _)
InsertByKey(sorted, x) ==
    IF sorted = <<>> THEN <<x>>
    ELSE IF Head(sorted)[1] <= x[1]
         THEN <<Head(sorted)>> \o InsertByKey(Tail(sorted), x)
         ELSE <<x>> \o sorted

RECURSIVE SortPairs(_)
SortPairs(s) ==
    IF s = <<>> THEN <<>>
    ELSE InsertByKey(SortPairs(SubSeq(s, 1, Len(s) - 1)), s[Len(s)])

\* list.sort(key=Key).
SortByKey(s, Key(_)) ==
    LET Items(sorted) == [i \in 1..Len(sorted) |-> sorted[i][2]]
    IN  Items(SortPairs([i \in 1..Len(s) |-> <<Key(s[i]), s[i]>>]))

\* "w0.word LIKE ?" with the parameter "%term%".
Like(word, term) ==
    Contains(Lower(Chars(word[1]) \o Chars(word[2])), Lower(Chars(term)))

\* "FROM entries e JOIN words w0 ON e.id = w0.entry_id WHERE w0.word LIKE
\* ?": one row for every words row of an entry that holds the term.
JoinWords(db, term) ==
    Enumerate({w \in db.words : w[1] \in DOMAIN db.entries /\ Like(w[2], term)})

\* "SELECT e.source_file, e.id" of every joined row.
SelectLocations(db, rows) ==
    [i \in 1..Len(rows) |-> <<db.entries[rows[i][1]].source_file, rows[i][1]>>]

DistinctKeepsAll(rows) == rows

\* "SELECT DISTINCT": a row is kept the first time it occurs.
Distinct(rows) == Register(<<>>, rows)

LocationKey(location) == location[1] * (MaxId + 1) + location[2]

\* "ORDER BY e.source_file, e.id".
OrderBySourceFileAndId(rows) == SortByKey(rows, LocationKey)

\* SELECT_MATCHES_TEMPLATE for one included term.
select_matches(db, term) ==
    OrderBySourceFileAndId(Distinct(SelectLocations(db, JoinWords(db, term))))

\* The body of the loop of load_matches over file_map for one source file:
\* every located id that is written in the file yields the entry that
\* carries it (the last one, when two entries carry one id).
MatchesOfFile(locations, fs, source_file) ==
    LET parsed == parse_day_entries(source_file, fs[source_file].blocks)
        ids == {parsed[i].entry_id : i \in 1..Len(parsed)} \ {NoId}
        Entry(id) ==
            [day |-> source_file, entry_id |-> id,
             pos |-> CHOOSE i \in 1..Len(parsed) :
                         /\ parsed[i].entry_id = id
                         /\ \A j \in 1..Len(parsed) :
                                parsed[j].entry_id = id => j <= i,
             timestamp |-> parsed[CHOOSE i \in 1..Len(parsed) :
                         /\ parsed[i].entry_id = id
                         /\ \A j \in 1..Len(parsed) :
                                parsed[j].entry_id = id => j <= i].timestamp]
        Resolve(located) ==
            [i \in 1..Len(located) |-> Entry(located[i][2])]
    IN  IF ~fs[source_file].exists THEN <<>>
        ELSE Resolve(FilterOut(locations,
                 {l \in SeqToSet(locations) :
                     l[1] # source_file \/ l[2] \notin ids}))

DayAndTimestampKey(match) == match.day * 10 + Rank(match.timestamp)

\* load_matches for a list of locations: the files in the order in which
\* they first occur, then matches.sort(key=(day, timestamp)).
load_matches_list(locations, fs) ==
    LET source_files ==
            Distinct([i \in 1..Len(locations) |-> locations[i][1]])
    IN  SortByKey(Flatten([k \in 1..Len(source_files) |->
                      MatchesOfFile(locations, fs, source_files[k])]),
                  DayAndTimestampKey)

IdDescendingKey(match) == 0 - match.entry_id

\* matches.sort(key=int(entry_id), reverse=True) of search_entries.
SortMatchesByIdDescending(matches) == SortByKey(matches, IdDescendingKey)

\* The texts add is called with and the terms searched for.
TextEntries ==
    { [message_lines |-> << <<Word("old"), Word("bold")>> >>,
       metadata |-> <<>>, explicit_tags |-> <<>>],
      [message_lines |-> << <<Word("old")>> >>,
       metadata |-> <<>>, explicit_tags |-> <<>>],
      [message_lines |-> << <<Word("new")>> >>,
       metadata |-> <<>>, explicit_tags |-> <<>>] }

TextTerms == {"ol", "old", "new"}

\* KaydetService.search_entries for a query of one free-text term.
SearchText(term) ==
    LET st == EnsureIndex(files, Database, now)
    IN  /\ st.db.autoincrement <= MaxId
        /\ files' = st.fs
        /\ SetDatabase(st.db)
        /\ last' = Report("search text", TRUE, st.normalized_files, NoId,
                          {}, term,
                          SortMatchesByIdDescending(load_matches_list(
                              select_matches(st.db, term), st.fs)))
        /\ UNCHANGED <<now, edits>>

NextText ==
    \/ \E input \in TextEntries : Add(input)
    \/ NextDay
    \/ \E term \in TextTerms : SearchText(term)

SpecText == Init /\ [][NextText]_vars

\* The positions of the entries one of whose words holds the term.
Holding(fs, term) ==
    {p \in Positions(fs) :
        \E w \in extract_words_from_text(
                     parse_day_entries(p[1], fs[p[1]].blocks)[p[2]].lines) :
            Like(w, term)}

\* No two members of a sequence are equal.
NoRepeats(s) == \A i, j \in 1..Len(s) : s[i] = s[j] => i = j

\* C22 as stated: every matching entry is returned exactly once, and the
\* results are ordered by (source_file, id) ascending.
C22_OrderedByFileAndId ==
    last.op = "search text" =>
        /\ NoRepeats(last.matches)
        /\ ReturnedBy(last) = Holding(files, last.query)
        /\ \A i, j \in 1..Len(last.matches) :
               i < j => \/ last.matches[i].day < last.matches[j].day
                        \/ /\ last.matches[i].day = last.matches[j].day
                           /\ last.matches[i].entry_id
                                  < last.matches[j].entry_id

\* C22 (amended): every matching entry is returned exactly once, even when
\* several of its words rows hold the term; the index query yields the
\* locations ordered by (source_file, id) ascending, and search_entries
\* returns the entries ordered by id descending.
C22_DeduplicatedAndOrdered ==
    /\ \A term \in TextTerms :
           \A i, j \in 1..Len(select_matches(Database, term)) :
               i < j => LocationKey(select_matches(Database, term)[i])
                            < LocationKey(select_matches(Database, term)[j])
    /\ last.op = "search text" =>
           /\ NoRepeats(last.matches)
           /\ ReturnedBy(last) = Holding(files, last.query)
           /\ \A i, j \in 1..Len(last.matches) :
                  i < j => last.matches[i].entry_id > last.matches[j].entry_id

\* A search has returned two entries, one of which holds the term in two
\* of its words.
C22_Witness ==
    /\ last.op = "search text"
    /\ Len(last.matches) = 2
    /\ \E id \in DOMAIN entries :
           Cardinality({w \in words : w[1] = id /\ Like(w[2], last.query)}) = 2

(***************************************************************************)
(* search_command of commands/search.py: the default since: filter, the    *)
(* day-file names of the since: and until: filters, the empty query.       *)
(***************************************************************************)

\* The calendar days of the day files: the first day file is that of
\* 2025-01-31, the following ones those of February.
DateOf(d) ==
    IF d = 1 THEN [year |-> 2025, month |-> 1, day |-> 31]
    ELSE [year |-> 2025, month |-> 2, day |-> d - 1]

\* "%02d" and "%04d".
TwoDigits(n) == <<DigitChars[(n \div 10) + 1], DigitChars[(n % 10) + 1]>>

FourDigits(n) == TwoDigits(n \div 100) \o TwoDigits(n % 100)

\* date.isoformat().
isoformat(date) ==
    FourDigits(date.year) \o <<"-">> \o TwoDigits(date.month)
        \o <<"-">> \o TwoDigits(date.day)

\* date.strftime("%Y-%m-%d.txt"), the configured DAY_FILE_PATTERN.
strftime(date) == isoformat(date) \o <<".", "t", "x", "t">>

\* The name of day file d, as stored in entries.source_file.
DayFileName(d) == strftime(DateOf(d))

\* str.split(sep).
RECURSIVE SplitAll(_, _)
SplitAll(str, sep) ==
    IF Find(str, sep, 1) = 0 THEN <<str>>
    ELSE <<SubSeq(str, 1, Find(str, sep, 1) - 1)>>
             \o SplitAll(SubSeq(str, Find(str, sep, 1) + 1, Len(str)), sep)

DaysInMonth(month) == IF month = 2 THEN 28 ELSE 31

\* datetime.strptime(value, "%Y-%m-%d"): the date, or ok = FALSE for
\* ValueError.  %Y takes four digits, %m and %d one or two.
strptime(value) ==
    LET Parsed(parts) ==
            IF /\ Len(parts) = 3
               /\ \A i \in 1..3 : IsDigits(parts[i])
               /\ Len(parts[1]) = 4
               /\ Len(parts[2]) \in 1..2 /\ IntOf(parts[2]) \in 1..12
               /\ Len(parts[3]) \in 1..2
               /\ IntOf(parts[3]) \in 1..DaysInMonth(IntOf(parts[2]))
            THEN [ok |-> TRUE,
                  date |-> [year |-> IntOf(parts[1]),
                            month |-> IntOf(parts[2]),
                            day |-> IntOf(parts[3])]]
            ELSE [ok |-> FALSE, date |-> DateOf(1)]
    IN  Parsed(SplitAll(value, "-"))

\* The characters of the names and values, in the order of their codes.
CharOrder ==
    <<"-", ".">> \o DigitChars \o <<"a", "j", "l", "n", "t", "x">>

CharCode(c) == CHOOSE i \in 1..Len(CharOrder) : CharOrder[i] = c

\* a <= b for two strings, as SQLite compares TEXT.
RECURSIVE StrLeq(_, _)
StrLeq(a, b) ==
    IF a = <<>> THEN TRUE
    ELSE IF b = <<>> THEN FALSE
    ELSE IF Head(a) = Head(b) THEN StrLeq(Tail(a), Tail(b))
    ELSE CharCode(Head(a)) < CharCode(Head(b))

\* The default filter: since the first day of the current month.
current_month_start(today) ==
    isoformat([DateOf(today) EXCEPT !.day = 1])

\* "Add default since: filter for current month if not specified".
WithDefaultSince(include_meta, today) ==
    IF \E i \in 1..Len(include_meta) : include_meta[i].key = "since"
    THEN include_meta
    ELSE Append(include_meta,
                [neg |-> FALSE, key |-> "since",
                 value |-> current_month_start(today)])

NormalizeKeepsValue(filter) == filter

\* "Normalize date-based filenames for since/until filters", for one
\* filter.
NormalizeDateFilter(filter) ==
    IF /\ filter.key \in {"since", "until"}
       /\ filter.value \notin {<<"0">>, <<"a", "l", "l">>}
       /\ strptime(filter.value).ok
    THEN [filter EXCEPT !.value = strftime(strptime(filter.value).date)]
    ELSE filter

\* The clause build_search_query adds for a since: or until: filter.
DateClause(source_file, filter) ==
    IF filter.value \in {<<"0">>, <<"a", "l", "l">>} THEN TRUE
    ELSE IF filter.key = "since"
         THEN StrLeq(filter.value, DayFileName(source_file))
         ELSE StrLeq(DayFileName(source_file), filter.value)

\* build_search_query and its execution for since: and until: filters:
\* the rows of entries the WHERE clause keeps ("1=1" without a clause).
select_date_matches(db, include_meta) ==
    OrderBySourceFileAndId(Distinct(SelectLocations(db,
        Enumerate({<<id>> : id \in {n \in DOMAIN db.entries :
            \A i \in 1..Len(include_meta) :
                DateClause(db.entries[n].source_file, include_meta[i])}}))))

\* The values of the date filters: the days of the day files, one of them
\* also written without leading zeros, "0" and "all".
DateValues ==
    {isoformat(DateOf(d)) : d \in Days}
      \cup {<<"2", "0", "2", "5", "-", "1", "-", "3", "1">>,
            <<"0">>, <<"a", "l", "l">>}

\* The queries: no filter at all, or one date filter.
DateQueries ==
    {<<>>} \cup {<<[neg |-> FALSE, key |-> k, value |-> v]>> :
                    k \in {"since", "until"}, v \in DateValues}

\* The entries add is called with: one without metadata and one whose
\* metadata has the key since.
DateEntries ==
    { [message_lines |-> << <<Word("a")>> >>,
       metadata |-> <<>>, explicit_tags |-> <<>>],
      [message_lines |-> << <<Word("b")>> >>,
       metadata |-> << <<"since", "0">> >>, explicit_tags |-> <<>>] }

\* What search_command does after rebuild_index_if_empty: whether it went
\* on to the index query, and the matches it prints.
search_command(fs, db, query, today, allow_empty) ==
    LET Run(include_meta) ==
            IF include_meta = <<>> /\ tokenize_query(query).exclude_meta = <<>>
                                   /\ ~allow_empty
            THEN [ok |-> FALSE, matches |-> <<>>]
            ELSE [ok |-> TRUE,
                  matches |-> load_matches_list(
                      select_date_matches(db, include_meta), fs)]
        Normalized(include_meta) ==
            Run([i \in 1..Len(include_meta) |->
                    NormalizeDateFilter(include_meta[i])])
    IN  Normalized(WithDefaultSince(tokenize_query(query).include_meta,
                                    today))

SearchCommand(query, allow_empty) ==
    LET st == rebuild_index_if_empty(
                  [fs |-> files, db |-> Database, normalized_files |-> <<>>],
                  now)
    IN  /\ st.db.autoincrement <= MaxId
        /\ files' = st.fs
        /\ SetDatabase(st.db)
        /\ last' = Report(IF allow_empty THEN "list" ELSE "search_command",
                          search_command(st.fs, st.db, query, now,
                                         allow_empty).ok,
                          st.normalized_files, NoId, {}, query,
                          search_command(st.fs, st.db, query, now,
                                         allow_empty).matches)
        /\ UNCHANGED <<now, edits>>

NextDates ==
    \/ \E input \in DateEntries : Add(input)
    \/ NextDay
    \/ \E query \in DateQueries, allow_empty \in BOOLEAN :
           SearchCommand(query, allow_empty)

SpecDates == Init /\ [][NextDates]_vars

\* The last operation was a search for one filter with this key.
SearchedFor(key) ==
    /\ last.op \in {"search_command", "list"}
    /\ Len(last.query) = 1
    /\ last.query[1].key = key

\* The positions of the entries of the day files from day lo to day hi.
Between(fs, lo, hi) == {p \in Positions(fs) : lo <= p[1] /\ p[1] <= hi}

\* The day a date value names, whether or not it is written with leading
\* zeros.
DayNamed(value) ==
    CHOOSE d \in Days :
        IntOf(SplitAll(value, "-")[2]) = DateOf(d).month
            /\ IntOf(SplitAll(value, "-")[3]) = DateOf(d).day

\* The first day file of the month of the current day.
FirstDayOfMonth(today) ==
    CHOOSE d \in Days :
        /\ DateOf(d).month = DateOf(today).month
        /\ \A e \in Days : DateOf(e).month = DateOf(today).month => d <= e

\* C23: a since:D filter returns only (and all) the entries whose day file
\* is that of D or a later one, an until:D filter only those whose day
\* file is that of D or an earlier one (of these, the ones since the start
\* of the current month), whatever the metadata of the entries; since:0
\* and since:all restrict nothing.
C23_DateFilters ==
    /\ SearchedFor("since") =>
           ReturnedBy(last) =
               IF last.query[1].value \in {<<"0">>, <<"a", "l", "l">>}
               THEN Positions(files)
               ELSE Between(files, DayNamed(last.query[1].value), NumDays)
    /\ (SearchedFor("until")
          /\ last.query[1].value \notin {<<"0">>, <<"a", "l", "l">>}) =>
           ReturnedBy(last) =
               Between(files, FirstDayOfMonth(now),
                       DayNamed(last.query[1].value))

\* A since: filter written without leading zeros has returned an entry of
\* a later day file and one whose metadata has the key since.
C23_Witness ==
    /\ SearchedFor("since")
    /\ last.query[1].value = <<"2", "0", "2", "5", "-", "1", "-", "3", "1">>
    /\ \E i \in 1..Len(last.matches) : last.matches[i].day > 1
    /\ \E i \in 1..Len(last.matches) :
           \E r \in metadata : r[1] = last.matches[i].entry_id
                                   /\ r[2] = "since"

\* C24: a search whose query yields no inclusion and no exclusion filter
\* is rejected without running an index query, so it reports failure and
\* returns nothing; in the list-all mode (allow_empty) it returns every
\* entry.
C24_EmptyQueryRejected ==
    /\ (last.op = "search_command" /\ last.query = <<>>) =>
           ~last.ok /\ last.matches = <<>>
    /\ (last.op = "list" /\ last.query = <<>>) =>
           last.ok /\ ReturnedBy(last) = Positions(files)

(***************************************************************************)
(* Adding from raw text: create_entry and add_entry_command of             *)
(* commands/add.py, with the text as typed.                                *)
(***************************************************************************)

\* The characters str.strip() removes.
StripChars == Whitespace \cup {"\n"}

\* str.strip().
RECURSIVE lstrip(_)
lstrip(str) ==
    IF str # <<>> /\ Head(str) \in StripChars THEN lstrip(Tail(str)) ELSE str

RECURSIVE rstrip(_)
rstrip(str) ==
    IF str # <<>> /\ str[Len(str)] \in StripChars
    THEN rstrip(SubSeq(str, 1, Len(str) - 1)) ELSE str

strip(str) == rstrip(lstrip(str))

\* entry_body.splitlines() or [entry_body], for a stripped text.
splitlines(entry_body) == SplitAll(entry_body, "\n")

\* The word tokens of a line of text.
LineTokens(line) ==
    [i \in 1..Len(split(line)) |->
        Word(CHOOSE t \in {"old", "new"} : Chars(t) = split(line)[i])]

NothingIsNothing(entry_body, meta, explicit_tags) == FALSE

\* "not any((entry_body, metadata, unique_explicit))".
NothingToSave(entry_body, meta, explicit_tags) ==
    entry_body = <<>> /\ meta = <<>> /\ explicit_tags = <<>>

\* What create_entry goes on with once the text is not empty.
Stripped(input) ==
    [message_lines |->
         [i \in 1..Len(splitlines(strip(input.raw_entry))) |->
             LineTokens(splitlines(strip(input.raw_entry))[i])],
     metadata |-> input.metadata,
     explicit_tags |-> input.explicit_tags]

\* The raw texts: nothing, whitespace only, a word with whitespace around
\* it, two lines.
RawTexts ==
    { <<>>, <<" ", "\n", " ">>, <<" ", "o", "l", "d", " ">>,
      <<"o", "l", "d", "\n", "n", "e", "w">> }

RawInputs ==
    [raw_entry : RawTexts, metadata : {<<>>, << <<"status", "done">> >>},
     explicit_tags : {<<>>, <<"home">>}]

\* KaydetService.add_entry: create_entry, EmptyEntryError reported as a
\* failure.
AddRaw(input) ==
    IF NothingToSave(strip(input.raw_entry), input.metadata,
                     input.explicit_tags)
    THEN /\ last' = Outcome("add_entry", FALSE, <<>>, NoId)
         /\ UNCHANGED <<files, entries, tags, words, metadata, autoincrement,
                        synced_files, now, edits>>
    ELSE Add(Stripped(input))

\* ensure_day_file: the day file is created when it does not exist.
ensure_day_file(fs, db, d) ==
    IF fs[d].exists THEN fs
    ELSE [fs EXCEPT ![d] = [exists |-> TRUE, blocks |-> <<>>,
                            mtime |-> NewMtime(fs[d], db, d)]]

\* add_entry_command: the day file is ensured, then "Nothing to save." or
\* create_entry.
AddCommand(input) ==
    IF NothingToSave(strip(input.raw_entry), input.metadata,
                     input.explicit_tags)
    THEN /\ files' = ensure_day_file(files, Database, now)
         /\ last' = Outcome("add_entry_command", FALSE, <<>>, NoId)
         /\ UNCHANGED <<entries, tags, words, metadata, autoincrement,
                        synced_files, now, edits>>
    ELSE Add(Stripped(input))

NextRaw ==
    \/ \E input \in RawInputs : AddRaw(input)
    \/ \E input \in RawInputs : AddCommand(input)
    \/ NextDay

SpecRaw == Init /\ [][NextRaw]_vars

\* An add input with nothing in it: no text but whitespace, no metadata,
\* no tags.
EmptyInputs ==
    {input \in RawInputs :
        /\ \A i \in 1..Len(input.raw_entry) : input.raw_entry[i] \in StripChars
        /\ input.metadata = <<>>
        /\ input.explicit_tags = <<>>}

\* C25: an add whose text is empty after stripping whitespace and that has
\* no metadata and no tags is rejected: it reports failure, no entry is
\* written to any day file, no index row is created and no id is consumed.
C25_EmptyEntryRejected ==
    [][\A input \in EmptyInputs :
           (AddRaw(input) \/ AddCommand(input)) =>
               /\ ~last'.ok
               /\ \A d \in Days : files'[d].blocks = files[d].blocks
               /\ entries' = entries
               /\ tags' = tags
               /\ words' = words
               /\ metadata' = metadata
               /\ autoincrement' = autoincrement]_vars

\* "Nothing to save." has been reported for a day whose file did not
\* exist before: the file is there and holds no entry.
C25_Witness ==
    /\ last.op = "add_entry_command"
    /\ ~last.ok
    /\ files[now].exists
    /\ files[now].blocks = <<>>
    /\ entries = <<>>

(***************************************************************************)
(* Editing and marking done: update_entry_inline of commands/edit.py,      *)
(* done_command of commands/todo.py and their KaydetService wrappers.      *)
(***************************************************************************)

\* A day file is removed from the storage root.
RemoveFile(d) ==
    /\ edits < MaxEdits
    /\ edits' = edits + 1
    /\ files[d].exists
    /\ files' = [files EXCEPT ![d] = NoFile]
    /\ last' = Outcome("manual", TRUE, <<>>, NoId)
    /\ UNCHANGED <<entries, tags, words, metadata, autoincrement,
                   synced_files, now>>

\* What update_entry_inline is called with: a new text, new metadata and
\* new tags, each of which may be left out (a metadata of <<>> stands for
\* None and for {} alike: "metadata or current_metadata").
EditInputs ==
    { [has_text |-> TRUE, text |-> << <<Word("new")>> >>,
       metadata |-> <<>>, has_tags |-> FALSE, tags |-> <<>>],
      [has_text |-> FALSE, text |-> <<>>,
       metadata |-> << <<"status", "wip">> >>,
       has_tags |-> TRUE, tags |-> <<"work">>],
      [has_text |-> FALSE, text |-> <<>>,
       metadata |-> <<>>, has_tags |-> TRUE, tags |-> <<>>] }

\* The block update_entry_inline puts in the place of the original block.
normalized_block(original_block, entry_id, input) ==
    LET current == parse_stored_entry_remainder(original_block.rem)
        message_lines ==
            IF input.has_text THEN input.text
            ELSE <<current.message>> \o original_block.cont
        metadata_map ==
            IF input.metadata # <<>> THEN input.metadata
            ELSE current.metadata
        unique_explicit ==
            SortedTags(IF input.has_tags THEN input.tags
                       ELSE current.explicit_tags)
        embedded_tags == HashtagsOf(Flatten(message_lines))
    IN  Block(format_entry_header_with_id(original_block.ts,
                  message_lines[1], metadata_map,
                  FilterOut(unique_explicit, SeqToSet(embedded_tags)),
                  entry_id),
              Tail(message_lines))

\* KaydetService.update_entry: update_entry_inline, None reported as a
\* failure.
Update(entry_id, input) ==
    LET found == entry_id \in DOMAIN entries
        source_file == entries[entry_id].source_file
        start == find_entry_block(files[source_file].blocks, entry_id)
        written == [files EXCEPT ![source_file] =
                       [exists |-> TRUE,
                        blocks |-> [@.blocks EXCEPT ![start] =
                                       normalized_block(@, entry_id, input)],
                        mtime |-> NewMtime(@, Database, source_file)]]
        st == sync_modified_diary_files(written, Database, now, FALSE)
    IN  IF found /\ files[source_file].exists /\ start # 0
        THEN /\ st.db.autoincrement <= MaxId
             /\ files' = st.fs
             /\ SetDatabase(st.db)
             /\ last' = Outcome("update", TRUE, st.normalized_files,
                                entry_id)
             /\ UNCHANGED <<now, edits>>
        ELSE /\ last' = Outcome("update", FALSE, <<>>, entry_id)
             /\ UNCHANGED <<files, entries, tags, words, metadata,
                            autoincrement, synced_files, now, edits>>

\* now.strftime("%H:%M") of done_command.
completed_time == Timestamp

\* list.insert(i, x) for i = 0 and i = 1.
InsertAt(items, i, x) ==
    IF i >= Len(items) THEN Append(items, x)
    ELSE SubSeq(items, 1, i) \o <<x>> \o SubSeq(items, i + 1, Len(items))

\* The metadata items of a header line after done_command: status: and
\* completed_at: items are replaced, or inserted when there are none.
new_metadata_items(metadata_items) ==
    LET Replaced ==
            [i \in 1..Len(metadata_items) |->
                IF metadata_items[i].t = "meta"
                       /\ metadata_items[i].k = "status"
                THEN Meta("status", "done")
                ELSE IF metadata_items[i].t = "meta"
                            /\ metadata_items[i].k = "completed_at"
                THEN Meta("completed_at", completed_time)
                ELSE metadata_items[i]]
        Has(key) ==
            \E i \in 1..Len(metadata_items) :
                metadata_items[i].t = "meta" /\ metadata_items[i].k = key
        WithStatus ==
            IF Has("status") THEN Replaced
            ELSE InsertAt(Replaced, 0, Meta("status", "done"))
    IN  IF Has("completed_at") THEN WithStatus
        ELSE InsertAt(WithStatus, 1, Meta("completed_at", completed_time))

\* The header line done_command writes for a line that carries the id.
new_line(rem) ==
    IF InSeq(Pipe, rem)
    THEN LET parts == SplitAll(rem, Pipe)
         IN  parts[1] \o <<Pipe>> \o new_metadata_items(parts[2])
                 \o <<Pipe>> \o (IF Len(parts) > 2 THEN parts[3] ELSE <<>>)
    ELSE rem \o <<Pipe, Meta("status", "done"),
                  Meta("completed_at", completed_time), Pipe>>

\* The metadata rows after the UPDATE and INSERT statements of
\* done_command.
DoneRows(rows, entry_id) ==
    {r \in rows : r[1] # entry_id \/ r[2] \notin {"status", "completed_at"}}
        \cup {<<entry_id, "status", "done">>,
              <<entry_id, "completed_at", completed_time>>}

\* f"[{entry_id}]".
BracketText(entry_id) == <<"[1]", "[2]", "[3]">>[entry_id]

\* f"[{entry_id}]" in line, for a header line: the text is the line's id
\* stamp or a word of its message.
LineHoldsId(blk, entry_id) ==
    \/ blk.id = entry_id
    \/ \E i \in 1..Len(blk.rem) :
           blk.rem[i].t = "word" /\ blk.rem[i].v = BracketText(entry_id)

\* done_command: whether the entry was marked, and the day files and the
\* index afterwards.
done_command(fs, db, entry_id) ==
    LET source_file == db.entries[entry_id].source_file
        Marked(file) ==
            [marked |-> TRUE,
             fs |-> [fs EXCEPT ![source_file] =
                        [exists |-> TRUE,
                         blocks |-> [i \in 1..Len(file.blocks) |->
                                        IF LineHoldsId(file.blocks[i],
                                                       entry_id)
                                        THEN [file.blocks[i] EXCEPT
                                                 !.rem = new_line(@)]
                                        ELSE file.blocks[i]],
                         mtime |-> NewMtime(file, db, source_file)]],
             db |-> [db EXCEPT !.metadata = DoneRows(@, entry_id)]]
    IN  IF /\ entry_id \in DOMAIN db.entries
           /\ fs[source_file].exists
           /\ \E i \in 1..Len(fs[source_file].blocks) :
                  parse_day_entries(source_file,
                      fs[source_file].blocks)[i].entry_id = entry_id
        THEN Marked(fs[source_file])
        ELSE [marked |-> FALSE, fs |-> fs, db |-> db]

\* KaydetService.mark_todo_done: failure is reported when done_command
\* raises, which it does not.
MarkDone(entry_id) ==
    /\ files' = done_command(files, Database, entry_id).fs
    /\ SetDatabase(done_command(files, Database, entry_id).db)
    /\ last' = Outcome("done", TRUE, <<>>, entry_id)
    /\ UNCHANGED <<now, edits>>

\* The runs of a user who adds entries, removes blocks and day files by
\* hand, and deletes, edits and marks entries by id.
NextById ==
    \/ \E input \in AddInputs : Add(input)
    \/ NextDay
    \/ \E d \in Days : RemoveFile(d)
    \/ \E d \in Days, i \in 1..MaxEntries : ManualDelete(d, i)
    \/ \E entry_id \in Ids : Delete(entry_id)
    \/ \E entry_id \in Ids, input \in EditInputs : Update(entry_id, input)
    \/ \E entry_id \in Ids : MarkDone(entry_id)

SpecById == Init /\ [][NextById]_vars

\* Entry id is not in the index, or its row names a day file that is not
\* on disk, or no block of that file carries the id.
Unlocatable(fs, db, id) ==
    \/ id \notin DOMAIN db.entries
    \/ ~fs[db.entries[id].source_file].exists
    \/ \A i \in 1..Len(fs[db.entries[id].source_file].blocks) :
           fs[db.entries[id].source_file].blocks[i].id # id

\* C26: edit, delete or mark-done of an id that is not in the index, whose
\* row names a day file absent from disk, or whose block is not in its
\* file, reports failure and leaves every day file, every index row and
\* the sync state unchanged.
C26_FailedOperationsChangeNothing ==
    [][(/\ last'.op \in {"delete", "update", "done"}
        /\ Unlocatable(files, Database, last'.entry_id)) =>
           /\ ~last'.ok
           /\ files' = files
           /\ entries' = entries
           /\ tags' = tags
           /\ words' = words
           /\ metadata' = metadata
           /\ synced_files' = synced_files]_vars

\* The position in day file d of the first block that carries the id.
BlockOf(fs, d, id) ==
    CHOOSE i \in 1..Len(fs[d].blocks) :
        /\ fs[d].blocks[i].id = id
        /\ \A j \in 1..(i - 1) : fs[d].blocks[j].id # id

\* C27: an edit of an indexed entry whose block is in its day file
\* succeeds and rewrites only that block, in place: the entry keeps its id
\* and its position, every other block, every other day file and the index
\* rows of every other id are unchanged, and the index rows of the id are
\* those of the new text, metadata and tags.
C27_EditRewritesInPlace ==
    [][\A id \in Ids, input \in EditInputs :
           (Update(id, input) /\ ~Unlocatable(files, Database, id)) =>
               LET d == entries[id].source_file
                   i == BlockOf(files, d, id)
                   edited == ParseBlock(d, files'[d].blocks[i])
               IN  /\ last'.ok
                   /\ Len(files'[d].blocks) = Len(files[d].blocks)
                   /\ files'[d].blocks[i].id = id
                   /\ \A k \in 1..Len(files[d].blocks) :
                          k # i => files'[d].blocks[k] = files[d].blocks[k]
                   /\ \A o \in Days \ {d} : files'[o] = files[o]
                   /\ \A n \in Ids \ {id} :
                          RowsOf(DatabaseNext, n) = RowsOf(Database, n)
                   /\ RowsProject(DatabaseNext, id, d, edited)
                   /\ input.has_text => edited.lines = input.text
                   /\ input.metadata # <<>> =>
                          edited.metadata = input.metadata]_vars

(***************************************************************************)
(* Day files that disappear: synchronize_diary and doctor_command when a   *)
(* file named by index rows is no longer on disk.                          *)
(***************************************************************************)

\* The runs of a user who adds entries, removes day files, and runs sync
\* passes and rebuilds.
NextVanish ==
    \/ \E input \in AddInputs : Add(input)
    \/ NextDay
    \/ \E d \in Days : RemoveFile(d)
    \/ Sync
    \/ Doctor

SpecVanish == Init /\ [][NextVanish]_vars

MaxLines == 3

\* A line that matches ENTRY_LINE_PATTERN, and any other line.
EntryLine(ts, id, rem) == [entry |-> TRUE, ts |-> ts, id |-> id, rem |-> rem]

TextLine(text) == [entry |-> FALSE, ts |-> "", id |-> NoId, rem |-> text]

\* The character U+000C inside a line.
FormFeed == [t |-> "ff", k |-> "", v |-> ""]

\* The newline-terminated lines a day file is made of: a title, a line
\* with a form feed and a hashtag, an entry line without an id, and one at
\* another time with an id, a legacy tag and metadata.
FileLines ==
    { TextLine(<<Word("title")>>),
      TextLine(<<Word("more"), FormFeed, Hash("work")>>),
      EntryLine(Timestamp, NoId, <<Word("note")>>),
      EntryLine(AtTimestamp, 1,
                <<LegacyTag("home"), Word("old"), Pipe,
                  Meta("status", "done")>>) }

\* The texts of a day file: at most MaxLines lines.
RECURSIVE Texts(_)
Texts(n) ==
    IF n = 0 THEN {<<>>}
    ELSE Texts(n - 1)
           \cup {Append(t, l) : t \in {x \in Texts(n - 1) : Len(x) = n - 1},
                                l \in FileLines}

\* raw_text.splitlines(): a line ends at a newline and at a form feed
\* alike; what follows a form feed is a line of its own.
RECURSIVE read_diary_lines(_)
read_diary_lines(text) ==
    IF text = <<>> THEN <<>>
    ELSE LET Pieces(parts) ==
                 <<[Head(text) EXCEPT !.rem = parts[1]]>>
                     \o [i \in 1..(Len(parts) - 1) |-> TextLine(parts[i + 1])]
         IN  Pieces(SplitAll(Head(text).rem, FormFeed))
                 \o read_diary_lines(Tail(text))

\* _split_header: the lines before the first entry line.
_split_header(lines) ==
    IF \E i \in 1..Len(lines) : lines[i].entry
    THEN SubSeq(lines, 1,
             (CHOOSE i \in 1..Len(lines) :
                  /\ lines[i].entry
                  /\ \A j \in 1..(i - 1) : ~lines[j].entry) - 1)
    ELSE lines

\* The loop of parse_day_entries over the lines: an entry line opens a
\* block, another line is appended to the open block or ignored when none
\* is open.
RECURSIVE BlocksOfLines(_, _)
BlocksOfLines(lines, blocks) ==
    IF lines = <<>> THEN blocks
    ELSE BlocksOfLines(Tail(lines),
             IF Head(lines).entry
             THEN Append(blocks, [ts |-> Head(lines).ts, id |-> Head(lines).id,
                                  rem |-> Head(lines).rem, cont |-> <<>>])
             ELSE IF blocks = <<>> THEN blocks
             ELSE [blocks EXCEPT ![Len(blocks)].cont =
                      Append(@, Head(lines).rem)])

\* rendered_lines: the header lines, then for every entry its header line
\* and its other lines.
rendered_lines(header_lines, blocks) ==
    header_lines
      \o Flatten([i \in 1..Len(blocks) |->
             <<EntryLine(blocks[i].ts, blocks[i].id, blocks[i].rem)>>
                 \o [k \in 1..Len(blocks[i].cont) |->
                        TextLine(blocks[i].cont[k])]])

\* The state after the pass, and what it reports.
SyncResult(d, text, lines, st) ==
    /\ st.db.autoincrement <= MaxId
    /\ files' = st.fs
    /\ SetDatabase(st.db)
    /\ last' = Report("sync text", InSeq(d, st.normalized_files),
                      st.normalized_files, NoId, {}, text,
                      rendered_lines(_split_header(lines), st.fs[d].blocks))

\* _write_if_changed compares texts: the file is rewritten when the
\* rendered lines are not the text it had, also when the entries are as
\* they were.
Rewrite(st, d, changed) ==
    IF changed /\ ~InSeq(d, st.normalized_files)
    THEN [fs |-> [st.fs EXCEPT ![d].mtime = NewMtime(st.fs[d], st.db, d)],
          db |-> [st.db EXCEPT !.synced_files[d].mtime =
                                   NewMtime(st.fs[d], st.db, d)],
          normalized_files |-> Append(st.normalized_files, d)]
    ELSE st

\* A day file is given a text and a sync pass runs.  The operation reports
\* the text, whether the pass rewrote the file, and the lines it rendered
\* for it.
SyncText(d, text) ==
    LET lines == read_diary_lines(text)
        written == [files EXCEPT ![d] =
                       [exists |-> TRUE,
                        blocks |-> BlocksOfLines(lines, <<>>),
                        mtime |-> NewMtime(@, Database, d)]]
        Rendered(st) == rendered_lines(_split_header(lines), st.fs[d].blocks)
        Pass(st) ==
            Rewrite(st, d, /\ ~st.db.synced_files[d].needs_final_sync
                           /\ Rendered(st) # text)
    IN  /\ edits < MaxEdits
        /\ edits' = edits + 1
        /\ SyncResult(d, text, lines,
               Pass(sync_modified_diary_files(written, Database, now, FALSE)))
        /\ UNCHANGED now

NextLines ==
    \/ \E d \in Days, lines \in Texts(MaxLines) : SyncText(d, lines)
    \/ NextDay

SpecLines == Init /\ [][NextLines]_vars

\* C29: when a sync pass rewrites a day file, the lines before the first
\* entry line and every continuation line are written back as they were
\* and where they were, and there are as many entries as before, in the
\* same order; only entry header lines may differ.
C29_OtherLinesVerbatim ==
    (last.op = "sync text" /\ last.ok) =>
        /\ Len(last.matches) = Len(last.query)
        /\ \A i \in 1..Len(last.query) :
               /\ last.matches[i].entry = last.query[i].entry
               /\ last.matches[i].ts = last.query[i].ts
               /\ ~last.query[i].entry => last.matches[i] = last.query[i]

\* C30: when a sync pass rewrites a day file to stamp or repair ids, an
\* entry header line keeps its timestamp and everything after the id
\* (message, pipes, metadata tokens, tag tokens, legacy tag prefix) as it
\* was; only the id stamp may differ.
C30_HeaderOnlyIdChanges ==
    (last.op = "sync text" /\ last.ok) =>
        \A i \in 1..Len(read_diary_lines(last.query)) :
            read_diary_lines(last.query)[i].entry =>
                /\ i <= Len(last.matches)
                /\ last.matches[i].entry
                /\ last.matches[i].ts = read_diary_lines(last.query)[i].ts
                /\ last.matches[i].rem = read_diary_lines(last.query)[i].rem

(***************************************************************************)
(* The ids the index mints (C31, C36).                                     *)
(***************************************************************************)

\* The ids written in the day files.
StampsIn(fs) == {IdAt(fs, p) : p \in Positions(fs)} \ {NoId}

\* The ids a step mints: those new in the index that no day file held.
MintedIds == (DOMAIN entries' \ DOMAIN entries) \ StampsIn(files)

\* C31 as stated: every id minted by add or by a sync pass is one more than
\* the greatest id present in the index at that moment, also after the
\* entry holding the greatest id was deleted.
C31_MintedIsGreatestPresentPlusOne ==
    [][/\ last'.op = "add" => last'.entry_id = GreatestId(entries) + 1
       /\ last'.op = "sync" =>
              \A m \in MintedIds :
                  m = 1 \/ (m - 1) \in DOMAIN entries \cup DOMAIN entries']_vars

\* C31, amended: every id minted by add or by a sync pass is greater than
\* every id present in the index and one more than the greatest id the
\* entries table ever held (the AUTOINCREMENT sequence), which no deletion
\* lowers; ids minted in one pass follow each other without a gap.
C31_MintedIsSequencePlusOne ==
    [][/\ last'.op = "add" =>
              /\ last'.entry_id = autoincrement + 1
              /\ last'.entry_id > GreatestId(entries)
              /\ last'.entry_id \in DOMAIN entries'
       /\ last'.op = "sync" =>
              \A m \in MintedIds :
                  /\ m > GreatestId(entries)
                  /\ m > autoincrement
                  /\ m <= autoincrement'
       /\ autoincrement' >= autoincrement
       /\ autoincrement' >= GreatestId(entries')]_vars

\* An id was minted while the index no longer held the greatest id it had
\* given out.
C31_Witness ==
    /\ last.op = "add"
    /\ last.entry_id > 1
    /\ (last.entry_id - 1) \notin DOMAIN entries

(***************************************************************************)
(* Tags and metadata of parsed entries (C32).                              *)
(***************************************************************************)

\* Entries a hand edit may type, header remainder and continuation lines:
\*   [home] note #work | status:open #Work status:done #home
\*   note #Work
\*   old #home | #work        followed by the line  #work #Work #new
TagBlocks ==
    { [rem |-> <<LegacyTag("home"), Word("note"), Hash("work"), Pipe,
                 Meta("status", "open"), Hash("Work"),
                 Meta("status", "done"), Hash("home")>>,
       cont |-> <<>>],
      [rem |-> <<Word("note"), Hash("Work")>>, cont |-> <<>>],
      [rem |-> <<Word("old"), Hash("home"), Pipe, Hash("work")>>,
       cont |-> << <<Hash("work"), Hash("Work"), Hash("new")>> >>] }

\* What add is called with when tags are given in any case and twice.
TagAddInputs ==
    { [message_lines |-> << <<Word("note"), Hash("home")>> >>,
       metadata |-> << <<"status", "done">> >>,
       explicit_tags |-> <<"Work", "home", "work">>] }

\* An entry is typed at the end of day file d, with its continuation lines.
ManualAppendBlock(d, id, blk) ==
    /\ edits < MaxEdits
    /\ edits' = edits + 1
    /\ Len(files[d].blocks) < MaxEntries
    /\ WriteBlocks(d, Append(files[d].blocks,
           [ts |-> Timestamp, id |-> id, rem |-> blk.rem,
            cont |-> blk.cont]))
    /\ last' = Outcome("manual", TRUE, <<>>, NoId)
    /\ UNCHANGED <<entries, tags, words, metadata, autoincrement,
                   synced_files, now>>

NextTags ==
    \/ \E d \in Days, id \in HandStamps, blk \in TagBlocks :
           ManualAppendBlock(d, id, blk)
    \/ \E input \in TagAddInputs : Add(input)
    \/ NextDay
    \/ Sync
    \/ Doctor

SpecTags == Init /\ [][NextTags]_vars

\* The names of the markers among tokens: all of them, or only those
\* written "#" followed by lowercase letters.
RECURSIVE MarkerNames(_, _)
MarkerNames(tokens, lowercase_only) ==
    IF tokens = <<>> THEN <<>>
    ELSE (IF /\ Head(tokens).t = "hash"
             /\ (lowercase_only => Head(tokens).v \in {"work", "home", "new"})
          THEN <<Head(tokens).v>> ELSE <<>>)
         \o MarkerNames(Tail(tokens), lowercase_only)

\* The first pipe of a token sequence, one past its end when it has none.
FirstPipe(tokens) ==
    IF \E i \in 1..Len(tokens) : tokens[i] = Pipe
    THEN CHOOSE i \in 1..Len(tokens) :
             tokens[i] = Pipe /\ \A j \in 1..(i - 1) : tokens[j] # Pipe
    ELSE Len(tokens) + 1

\* The tags a block declares, as written and in the order of the claim:
\* the legacy prefix, the markers behind the first pipe, then the hashtags
\* of the message and of the continuation lines.
DeclaredTags(blk) ==
    LET legacy == blk.rem # <<>> /\ Head(blk.rem).t = "legacy"
        rest == IF legacy THEN Tail(blk.rem) ELSE blk.rem
    IN  (IF legacy THEN <<Head(blk.rem).v>> ELSE <<>>)
        \o MarkerNames(SubSeq(rest, FirstPipe(rest) + 1, Len(rest)), FALSE)
        \o MarkerNames(SubSeq(rest, 1, FirstPipe(rest) - 1), TRUE)
        \o MarkerNames(Flatten(blk.cont), TRUE)

\* The metadata tokens a block declares, in order.
DeclaredMetadata(blk) ==
    LET rest == IF blk.rem # <<>> /\ Head(blk.rem).t = "legacy"
                THEN Tail(blk.rem) ELSE blk.rem
        behind == SubSeq(rest, FirstPipe(rest) + 1, Len(rest))
    IN  [i \in {j \in 1..Len(behind) : behind[j].t = "meta"} |-> behind[i]]

\* Where a lowercase tag is first declared.
FirstDeclared(declared, tag) ==
    CHOOSE i \in 1..Len(declared) :
        /\ str_lower(declared[i]) = tag
        /\ \A j \in 1..(i - 1) : str_lower(declared[j]) # tag

NormalizedEntry(blk, e) ==
    /\ \A i \in 1..Len(e.tags) : e.tags[i] \in {"work", "home", "new"}
    /\ NoRepeats(e.tags)
    /\ SeqToSet(e.tags) =
           {str_lower(DeclaredTags(blk)[i]) : i \in 1..Len(DeclaredTags(blk))}
    /\ \A i, j \in 1..Len(e.tags) :
           i < j => FirstDeclared(DeclaredTags(blk), e.tags[i])
                      < FirstDeclared(DeclaredTags(blk), e.tags[j])
    /\ \A i, j \in 1..Len(e.metadata) :
           e.metadata[i][1] = e.metadata[j][1] => i = j
    /\ {kv[1] : kv \in SeqToSet(e.metadata)} =
           {DeclaredMetadata(blk)[i].k : i \in DOMAIN DeclaredMetadata(blk)}
    /\ \A kv \in SeqToSet(e.metadata) :
           \E i \in DOMAIN DeclaredMetadata(blk) :
               /\ DeclaredMetadata(blk)[i] = Meta(kv[1], kv[2])
               /\ \A j \in DOMAIN DeclaredMetadata(blk) :
                      DeclaredMetadata(blk)[j].k = kv[1] => j <= i

\* C32: every parsed entry's tags are lowercase, without duplicates and in
\* first-seen order (legacy and explicit tags first, then hashtags in line
\* order), its metadata gives each key the value of its last declaration,
\* and the index holds no two rows for one (entry, metadata key) and only
\* lowercase tag rows.
C32_TagsAndMetadataNormalized ==
    /\ \A p \in Positions(files) :
           NormalizedEntry(files[p[1]].blocks[p[2]],
               parse_day_entries(p[1], files[p[1]].blocks)[p[2]])
    /\ \A row \in tags : row[2] \in {"work", "home", "new"}
    /\ \A r1, r2 \in metadata :
           (r1[1] = r2[1] /\ r1[2] = r2[2]) => r1 = r2

\* A file holds an entry that declares a tag twice, once with a capital
\* letter, and a key twice, and the index holds its rows.
C32_Witness ==
    \E p \in Positions(files) :
        /\ \E i, j \in 1..Len(DeclaredTags(files[p[1]].blocks[p[2]])) :
               /\ i # j
               /\ DeclaredTags(files[p[1]].blocks[p[2]])[i] = "Work"
               /\ DeclaredTags(files[p[1]].blocks[p[2]])[j] = "work"
        /\ \E i, j \in DOMAIN DeclaredMetadata(files[p[1]].blocks[p[2]]) :
               /\ i < j
               /\ DeclaredMetadata(files[p[1]].blocks[p[2]])[i].k
                      = DeclaredMetadata(files[p[1]].blocks[p[2]])[j].k
        /\ IdAt(files, p) \in DOMAIN entries
        /\ <<IdAt(files, p), "work">> \in tags
        /\ <<IdAt(files, p), "status", "done">> \in metadata

(***************************************************************************)
(* The todo workflow of KaydetService (C33).                               *)
(***************************************************************************)

\* Descriptions create_todo is called with: "old" and "see [1]".
TodoDescriptions == { <<Word("old")>>, <<Word("see"), Word("[1]")>> }

\* KaydetService.create_todo: create_entry with status pending and the
\* explicit tag todo.
CreateTodo(description) ==
    Add([message_lines |-> <<description>>,
         metadata |-> << <<"status", "pending">> >>,
         explicit_tags |-> <<"todo">>])

\* dict.get(key, default) on the metadata of a parsed entry.
MetadataGet(meta, key, default) ==
    IF \E i \in 1..Len(meta) : meta[i][1] = key
    THEN meta[CHOOSE i \in 1..Len(meta) : meta[i][1] = key][2]
    ELSE default

\* The loop of list_todos: for every located id whose day file exists, the
\* first parsed entry of the file that carries the id.
TodosOf(fs, locations) ==
    LET parsed(d) == parse_day_entries(d, fs[d].blocks)
        Found(l) == {i \in 1..Len(parsed(l[1])) :
                        parsed(l[1])[i].entry_id = l[2]}
        First(l) == parsed(l[1])[CHOOSE i \in Found(l) :
                                     \A j \in Found(l) : i <= j]
        Listed == FilterOut(locations,
                      {l \in SeqToSet(locations) :
                          ~fs[l[1]].exists \/ Found(l) = {}})
    IN  [i \in 1..Len(Listed) |->
            [id |-> Listed[i][2],
             status |-> MetadataGet(First(Listed[i]).metadata, "status",
                                    "pending"),
             completed_at |-> MetadataGet(First(Listed[i]).metadata,
                                          "completed_at", "")]]

\* KaydetService.list_todos.
list_todos(fs, db) ==
    TodosOf(fs,
        OrderBySourceFileAndId(Distinct(SelectLocations(db,
            Enumerate({t \in db.tags : t[1] \in DOMAIN db.entries
                                          /\ t[2] = "todo"})))))

ListTodos ==
    LET st == EnsureIndex(files, Database, now)
    IN  /\ st.db.autoincrement <= MaxId
        /\ files' = st.fs
        /\ SetDatabase(st.db)
        /\ last' = Report("list_todos", TRUE, st.normalized_files,
                          last.entry_id, {}, last.op,
                          list_todos(st.fs, st.db))
        /\ UNCHANGED <<now, edits>>

NextTodo ==
    \/ \E description \in TodoDescriptions : CreateTodo(description)
    \/ \E entry_id \in Ids : MarkDone(entry_id)
    \/ ListTodos
    \/ NextDay

SpecTodo == Init /\ [][NextTodo]_vars

\* The positions of the blocks that carry an id.
Carrying(fs, id) == {p \in Positions(fs) : IdAt(fs, p) = id}

\* A header remainder that says status done and a completed_at.
SaysDone(rem) ==
    /\ \E i \in 1..Len(rem) : rem[i] = Meta("status", "done")
    /\ \A i \in 1..Len(rem) :
           (rem[i].t = "meta" /\ rem[i].k = "status") => rem[i].v = "done"
    /\ \E i \in 1..Len(rem) :
           rem[i].t = "meta" /\ rem[i].k = "completed_at" /\ rem[i].v # ""

\* C33: create_todo adds an entry tagged todo with status pending;
\* mark_todo_done(id) on a todo sets status done and a non-empty
\* completed_at in its header line and in the index and modifies no line
\* of any other entry; list_todos right afterwards reports as many todos
\* as there are, that entry exactly once and with status done.
C33_TodoWorkflow ==
    [][/\ (last'.op = "add" /\ last'.ok) =>
              /\ <<last'.entry_id, "todo">> \in tags'
              /\ <<last'.entry_id, "status", "pending">> \in metadata'
       /\ (last'.op = "done" /\ Carrying(files, last'.entry_id) # {}
             /\ <<last'.entry_id, "todo">> \in tags) =>
              /\ last'.ok
              /\ \A p \in Carrying(files, last'.entry_id) :
                     SaysDone(files'[p[1]].blocks[p[2]].rem)
              /\ <<last'.entry_id, "status", "done">> \in metadata'
              /\ \E r \in metadata' :
                     r[1] = last'.entry_id /\ r[2] = "completed_at"
                         /\ r[3] # ""
              /\ \A p \in Positions(files) \ Carrying(files, last'.entry_id) :
                     files'[p[1]].blocks[p[2]] = files[p[1]].blocks[p[2]]
              /\ Positions(files') = Positions(files)
       /\ (last'.op = "list_todos" /\ last.op = "done"
             /\ <<last.entry_id, "status", "done">> \in metadata) =>
              /\ Len(last'.matches) =
                     Cardinality({t \in tags : t[2] = "todo"})
              /\ Cardinality({i \in 1..Len(last'.matches) :
                     last'.matches[i].id = last.entry_id}) = 1
              /\ \A i \in 1..Len(last'.matches) :
                     last'.matches[i].id = last.entry_id =>
                         /\ last'.matches[i].status = "done"
                         /\ last'.matches[i].completed_at # ""]_vars

(***************************************************************************)
(* The files a non-forced pass skips (C34).                                *)
(***************************************************************************)

\* The day files a non-forced pass does not read: those that are not on
\* disk or for which needs_sync is false.
SkippedFiles(fs, tracked, today) ==
    {d \in Days :
        ~fs[d].exists \/ NeedsSync(fs[d], d, tracked, today, FALSE) = FALSE}

\* The id conflicts a pass meets: <<A, B, c>> where the pass skips A, reads
\* B, an entry of B is stamped c and the index registers c to A.
IdConflicts(fs, db, today) ==
    {x \in Days \X Days \X Ids :
        /\ x[1] \in SkippedFiles(fs, db.synced_files, today)
        /\ x[2] \notin SkippedFiles(fs, db.synced_files, today)
        /\ \E i \in 1..Len(fs[x[2]].blocks) : fs[x[2]].blocks[i].id = x[3]
        /\ x[3] \in DOMAIN db.entries
        /\ db.entries[x[3]].source_file = x[1]}

\* A non-forced sync pass that also reports the files it skipped and the
\* id conflicts it met.
SyncSkipping ==
    LET st == sync_modified_diary_files(files, Database, now, FALSE)
    IN  /\ st.db.autoincrement <= MaxId
        /\ files' = st.fs
        /\ SetDatabase(st.db)
        /\ last' = Report("sync", TRUE, st.normalized_files, NoId,
                          SkippedFiles(files, synced_files, now),
                          IdConflicts(files, Database, now), <<>>)
        /\ UNCHANGED <<now, edits>>

NextSkip ==
    \/ \E d \in Days, id \in HandStamps, rem \in Remainders :
           ManualAppend(d, id, rem)
    \/ \E d \in Days, i \in 1..MaxEntries, rem \in Remainders :
           ManualRewrite(d, i, rem)
    \/ NextDay
    \/ \E input \in AddInputs : Add(input)
    \/ SyncSkipping

SpecSkip == Init /\ [][NextSkip]_vars

\* The index rows of the entries registered to day file d.
RowsOfFile(db, d) ==
    [id \in {i \in DOMAIN db.entries : db.entries[i].source_file = d} |->
        RowsOf(db, id)]

\* C34: a non-forced sync pass leaves alone every day file it does not
\* detect as modified or as pending its final sync: the file's text, its
\* tracked modification time and every index row registered to it are
\* unchanged, also when a file read in the same pass has an id conflict
\* with it.
C34_SkippedFilesUntouched ==
    [][last'.op = "sync" =>
          \A d \in last'.due :
              /\ files'[d] = files[d]
              /\ (d \in DOMAIN synced_files) = (d \in DOMAIN synced_files')
              /\ d \in DOMAIN synced_files =>
                     synced_files'[d] = synced_files[d]
              /\ RowsOfFile(DatabaseNext, d) = RowsOfFile(Database, d)]_vars

\* A pass skipped a file that holds indexed entries while a file it read
\* carried one of that file's ids.
C34_Witness ==
    /\ last.op = "sync"
    /\ last.query # {}
    /\ \E x \in last.query :
           /\ x[1] \in last.due
           /\ files[x[1]].exists
           /\ x[3] \in DOMAIN entries
           /\ entries[x[3]].source_file = x[1]

(***************************************************************************)
(* create_entry that does not complete (C35).                              *)
(***************************************************************************)

\* The index after database.add_entry of create_entry at "now".
IndexedFirst(db, input) ==
    add_entry(db, now, Timestamp,
        deduplicate_tags(SortedTags(input.explicit_tags),
                         input.message_lines),
        extract_words_from_text(input.message_lines), input.metadata)

\* create_entry whose write_func raises: the except branch deletes the
\* rows of the entry and re-raises.
AddWriteFails(input) ==
    /\ autoincrement < MaxId
    /\ files' = ensure_day_file(files, Database, now)
    /\ SetDatabase(DeleteEntryRows(IndexedFirst(Database, input),
                                   {NextRowid(Database)}))
    /\ last' = Outcome("add failed", FALSE, <<>>, NextRowid(Database))
    /\ UNCHANGED <<now, edits>>

\* The process stops after database.add_entry has committed and before
\* write_func writes.
AddStops(input) ==
    /\ autoincrement < MaxId
    /\ files' = ensure_day_file(files, Database, now)
    /\ SetDatabase(IndexedFirst(Database, input))
    /\ last' = Outcome("add stopped", FALSE, <<>>, NextRowid(Database))
    /\ UNCHANGED <<now, edits>>

NextAddCrash ==
    \/ \E input \in AddInputs : Add(input)
    \/ \E input \in AddInputs : AddWriteFails(input)
    \/ \E input \in AddInputs : AddStops(input)
    \/ Sync
    \/ NextDay

SpecAddCrash == Init /\ [][NextAddCrash]_vars

\* The index holds no row of entry id.
NoRowsOf(db, id) ==
    /\ id \notin DOMAIN db.entries
    /\ \A r \in db.tags \cup db.words \cup db.metadata : r[1] # id

\* C35: add inserts the index row before it writes the text; when the
\* write fails add deletes the entry's rows itself, and when the process
\* stops between the two steps the next sync pass removes the orphan row,
\* so that the index holds no row for an entry that is in no file.
C35_AddLeavesNoOrphan ==
    [][/\ last'.op = "add failed" => NoRowsOf(DatabaseNext, last'.entry_id)
       /\ (last.op = "add stopped" /\ last'.op = "sync") =>
              /\ NoRowsOf(DatabaseNext, last.entry_id)
              /\ DOMAIN entries' \subseteq StampsIn(files')]_vars

(***************************************************************************)
(* Ids are never given out twice (C36).                                    *)
(***************************************************************************)

\* The ids a step gives out: the id add returns and the ids a sync or a
\* doctor pass mints.
GivenOut ==
    MintedIds \cup (IF last'.op = "add" THEN {last'.entry_id} ELSE {})

\* C36: ids are never reused.  The AUTOINCREMENT sequence is at least every
\* id the index holds and never goes down, so it bounds every id minted so
\* far; every newly minted id is greater than it, hence held by no entry of
\* the index, also after the entry that had the greatest id was deleted;
\* and of two entries created by add one after the other, the later one has
\* the greater id.
C36_IdsNeverReused ==
    [][/\ \A m \in GivenOut :
              /\ m > autoincrement
              /\ m \notin DOMAIN entries
              /\ \A n \in DOMAIN entries : n < m
       /\ \A n \in DOMAIN entries : n <= autoincrement
       /\ autoincrement' >= autoincrement
       /\ (last.op = "add" /\ last'.op = "add") =>
              last'.entry_id > last.entry_id]_vars

\* add gave out an id after an entry with a smaller id was deleted from its
\* day file and from the index.
C36_Witness ==
    /\ last.op = "add"
    /\ \E n \in 1..(last.entry_id - 1) :
           /\ n \notin DOMAIN entries
           /\ n \notin StampsIn(files)

(***************************************************************************)
(* Exclusion filters against inclusion filters (C37).                      *)
(***************************************************************************)

\* The filters a search is given, each as an inclusion and as an exclusion
\* filter: an exact value, a wildcard, a comparison and a range.
ComplementFilters ==
    [neg : BOOLEAN, key : {"status"}, value : {"done", "d*"}]
      \cup [neg : BOOLEAN, key : {"time"}, value : {">1", "1..2"}]

NextExclude ==
    \/ \E input \in QueryEntries : Add(input)
    \/ NextDay
    \/ \E filter \in ComplementFilters : SearchMeta(filter)

SpecExclude == Init /\ [][NextExclude]_vars

\* The positions the inclusion query key:expr returns from the index the
\* search has left.
IncludedBy(filter) ==
    ReturnedBy([matches |-> SortByIdDescending(load_matches(
        build_meta_query(DatabaseNext,
                         <<[filter EXCEPT !.neg = FALSE]>>, <<>>),
        files', DatabaseNext))])

\* C37: exclusion is the complement of inclusion: for every metadata filter
\* expression f (exact value, comparison, range or wildcard) and key k, the
\* entries the exclusion query -k:f returns are exactly the entries the
\* inclusion query k:f does not return.
C37_ExclusionIsComplement ==
    [][\A filter \in ComplementFilters :
          (filter.neg /\ SearchMeta(filter)) =>
              ReturnedBy(last') = Positions(files') \ IncludedBy(filter)]_vars

(***************************************************************************)
(* Searches without a since: filter (C38).                                 *)
(***************************************************************************)

\* The query has no since: filter.
NoSinceFilter(query) ==
    \A i \in 1..Len(query) : query[i].key # "since"

\* The positions the filters the query does have allow: those an until:
\* filter does not cut off.
AllowedByQuery(fs, query) ==
    {p \in Positions(fs) :
        \A i \in 1..Len(query) :
            (/\ query[i].key = "until"
             /\ query[i].value \notin {<<"0">>, <<"a", "l", "l">>}) =>
                p[1] <= DayNamed(query[i].value)}

\* C38: a search whose query contains no since: filter is not restricted
\* by date: it returns the matching entries of every day file, whatever the
\* file's date relative to the current month.
C38_NoSinceNoDateRestriction ==
    (/\ last.op \in {"search_command", "list"}
     /\ last.ok
     /\ NoSinceFilter(last.query)) =>
        ReturnedBy(last) = AllowedByQuery(files, last.query)

(***************************************************************************)
(* The chronological insert over the lines of a day file (C39):            *)
(* insert_entry_chronologically of commands/add.py reads the file line by  *)
(* line.  The operator of the same name above is its effect on a file      *)
(* whose lines are the header lines the program writes.                    *)
(***************************************************************************)

\* "HH:MM" strings in the order string comparison gives them.
ClockOrder == <<AtTimestamp, Timestamp, "10:00", "12:00">>

ClockRank(ts) == CHOOSE i \in 1..Len(ClockOrder) : ClockOrder[i] = ts

\* The time given with --at.
InsertTimestamp == "10:00"

\* No leading "HH:MM".
NoTime == ""

\* A header line "HH:MM [id]: remainder", a header line of the older format
\* "uuid:HH:MM: remainder", and any other line, indented or not.
HeaderLine(ts, id, rem) ==
    [entry |-> TRUE, ts |-> ts, id |-> id, rem |-> rem, uuid |-> FALSE,
     indent |-> FALSE]

UuidHeaderLine(ts, rem) ==
    [entry |-> TRUE, ts |-> ts, id |-> NoId, rem |-> rem, uuid |-> TRUE,
     indent |-> FALSE]

PlainLine(text, indent) ==
    [entry |-> FALSE, ts |-> NoTime, id |-> NoId, rem |-> text,
     uuid |-> FALSE, indent |-> indent]

\* re.match(r"(\d{2}:\d{2})", line): the time a line starts with.  A header
\* line of the older format starts with its uuid, an indented line with
\* blanks.
LeadingTime(line) ==
    IF line.entry THEN (IF line.uuid THEN NoTime ELSE line.ts)
    ELSE IF /\ ~line.indent
            /\ line.rem # <<>>
            /\ line.rem[1].t = "word"
            /\ InSeq(line.rem[1].v, ClockOrder)
         THEN line.rem[1].v
         ELSE NoTime

\* The lines a day file is made of before the insert: header lines at
\* 09:00 and 12:00, a header line of the older format at 12:00, a line
\* typed under an entry that starts with a time ("12:00 more"), and an
\* indented line as the program writes it.
InsertLines ==
    { HeaderLine(Timestamp, NoId, <<Word("note")>>),
      HeaderLine("12:00", NoId, <<Word("old")>>),
      UuidHeaderLine("12:00", <<Word("old")>>),
      PlainLine(<<Word("12:00"), Word("more")>>, FALSE),
      PlainLine(<<Word("more")>>, TRUE) }

RECURSIVE InsertTexts(_)
InsertTexts(n) ==
    IF n = 0 THEN {<<>>}
    ELSE InsertTexts(n - 1)
           \cup {Append(t, l) :
                    t \in {x \in InsertTexts(n - 1) : Len(x) = n - 1},
                    l \in InsertLines}

\* The entry add --at is called with: a message of two lines.
InsertInputs ==
    { [message_lines |-> << <<Word("new")>>, <<Word("second")>> >>,
       metadata |-> <<>>, explicit_tags |-> <<>>] }

\* "for line in lines": the new entry goes before the first line that
\* starts with a later time.
RECURSIVE InsertLoop(_, _, _, _)
InsertLoop(lines, new_entry_content, timestamp, inserted) ==
    IF lines = <<>>
    THEN (IF inserted THEN <<>> ELSE new_entry_content)
    ELSE LET here == /\ ~inserted
                     /\ LeadingTime(Head(lines)) # NoTime
                     /\ ClockRank(timestamp)
                            < ClockRank(LeadingTime(Head(lines)))
         IN  (IF here THEN new_entry_content ELSE <<>>)
                 \o <<Head(lines)>>
                 \o InsertLoop(Tail(lines), new_entry_content, timestamp,
                               inserted \/ here)

\* insert_entry_chronologically over the lines of an existing day file.
insert_entry_lines(lines, entry_id, timestamp, message_lines, meta, extra_tag_markers) ==
    InsertLoop(lines,
        <<HeaderLine(timestamp, entry_id,
              format_entry_header(message_lines[1], meta,
                                  extra_tag_markers))>>
            \o [k \in 1..(Len(message_lines) - 1) |->
                   PlainLine(message_lines[k + 1], TRUE)],
        timestamp, FALSE)

\* The day file of today is given a text and add --at runs: create_entry
\* indexes the entry, then writes the file again with the entry inserted.
\* The operation reports the lines it read and the lines it wrote.
AddAtText(text, input) ==
    LET day_file == now
        lines == read_diary_lines(text)
        unique_explicit == SortedTags(input.explicit_tags)
        extra_tag_markers ==
            FilterOut(unique_explicit,
                      SeqToSet(deduplicate_tags(<<>>, input.message_lines)))
        output_lines ==
            insert_entry_lines(lines, NextRowid(Database), InsertTimestamp,
                input.message_lines, input.metadata, extra_tag_markers)
    IN  /\ autoincrement < MaxId
        /\ edits < MaxEdits
        /\ edits' = edits + 1
        /\ WriteBlocks(day_file, BlocksOfLines(output_lines, <<>>))
        /\ SetDatabase(add_entry(Database, day_file, InsertTimestamp,
               deduplicate_tags(unique_explicit, input.message_lines),
               extract_words_from_text(input.message_lines),
               input.metadata))
        /\ last' = Report("insert", TRUE, <<>>, NextRowid(Database), {},
                          lines, output_lines)
        /\ UNCHANGED now

NextInsert ==
    \/ \E text \in InsertTexts(MaxLines), input \in InsertInputs :
           AddAtText(text, input)
    \/ NextDay

SpecInsert == Init /\ [][NextInsert]_vars

\* Where the header line of the inserted entry is among the written lines.
InsertedAt(result) ==
    CHOOSE k \in 1..Len(result.matches) :
        /\ result.matches[k].entry
        /\ result.matches[k].id = result.entry_id

\* The number of lines of the inserted entry.
InsertedLength(result) == Len(result.matches) - Len(result.query)

\* The written lines without those of the inserted entry.
WithoutInserted(result) ==
    SubSeq(result.matches, 1, InsertedAt(result) - 1)
        \o SubSeq(result.matches,
                  InsertedAt(result) + InsertedLength(result),
                  Len(result.matches))

\* The header lines with a time later than ts.
LaterHeaders(lines, ts) ==
    {i \in 1..Len(lines) :
        lines[i].entry /\ ClockRank(ts) < ClockRank(lines[i].ts)}

\* The entries are in non-decreasing order of their timestamps.
InTimeOrder(blocks) ==
    \A i \in 1..Len(blocks), j \in 1..Len(blocks) :
        i < j => ClockRank(blocks[i].ts) <= ClockRank(blocks[j].ts)

\* The blocks without the one that has the id.
BlocksWithout(blocks, id) ==
    FilterOut(blocks, {b \in SeqToSet(blocks) : b.id = id})

\* C39: adding an entry with an explicit time inserts its block immediately
\* before the first existing entry whose timestamp is greater than the new
\* one, or at the end of the file when there is none; the existing lines
\* keep their relative order, no existing entry's header is separated from
\* its continuation lines, and a file whose entries were in non-decreasing
\* timestamp order remains so.
C39_ChronologicalInsert ==
    last.op = "insert" =>
        /\ InsertedAt(last) =
               IF LaterHeaders(last.query, InsertTimestamp) = {}
               THEN Len(last.query) + 1
               ELSE CHOOSE i \in LaterHeaders(last.query, InsertTimestamp) :
                        \A j \in LaterHeaders(last.query, InsertTimestamp) :
                            i <= j
        /\ WithoutInserted(last) = last.query
        /\ BlocksWithout(BlocksOfLines(last.matches, <<>>), last.entry_id)
               = BlocksOfLines(last.query, <<>>)
        /\ InTimeOrder(BlocksOfLines(last.query, <<>>)) =>
               InTimeOrder(BlocksOfLines(last.matches, <<>>))

====
